---- MODULE Spec2Model ----
(***************************************************************************)
(* A model of the configuration-driven HL7 encoder                         *)
(* (src/deepseek_python_20251105_ec8995.py): DynamicHL7Generator and       *)
(* DynamicHL7BatchProcessor.                                               *)
(*                                                                         *)
(* Representation.                                                         *)
(*   - A Python str is a TLA+ string; replace/upper/split work on its      *)
(*     characters (SubSeq, \o, Len).                                       *)
(*   - A JSON value is a pair <<kind, payload>>: <<"none", 0>>,            *)
(*     <<"int", n>>, <<"str", s>>, <<"list", items>>, <<"dict", pairs>>,   *)
(*     a dict's payload being the sequence of its <<key, value>> pairs in  *)
(*     insertion order (Python dicts are ordered).                         *)
(*   - A CSV cell is <<>> (None) or <<s>> (the string s); a configuration  *)
(*     row is a function from the columns of the row schema to cells.      *)
(*   - A call that may raise returns [ok, val, err].                       *)
(*   - An output line is a record of its fields, tag first; joining the    *)
(*     fields with "|" is not modelled.                                    *)
(*   - datetime.now() reads the variable clock (whole seconds).            *)
(* Reading the CSV file (_load_config) and the logger calls are outside    *)
(* the model: config_data is the list of rows the loader returned.         *)
(***************************************************************************)
EXTENDS Integers, Sequences, FiniteSets, TLC

VARIABLES
    raw_key, config_key, record_key,
    tree, field_path, normalized_tree, resolved,
    fieldnames, config_data, construct, segment_mappings,
    json_data, pc, normalized_data, hl7_segments, obr_counter, section_idx,
    msh_time, raised, clock,
    json_data_list, batch_pc, results,
    calls, called_at,
    amia_status, claria_status, reprocess_amia, reprocess_claria, statement,
    schedule_call, schedule_pc, schedule_current, occurrences

vars == <<raw_key, config_key, record_key,
          tree, field_path, normalized_tree, resolved,
          fieldnames, config_data, construct, segment_mappings,
          json_data, pc, normalized_data, hl7_segments, obr_counter, section_idx,
          msh_time, raised, clock,
          json_data_list, batch_pc, results,
          calls, called_at,
          amia_status, claria_status, reprocess_amia, reprocess_claria, statement,
          schedule_call, schedule_pc, schedule_current, occurrences>>

normVars == <<raw_key, config_key, record_key>>
pathVars == <<tree, field_path, normalized_tree, resolved>>
compileVars == <<fieldnames, config_data, construct>>
callVars == <<json_data, pc, normalized_data, hl7_segments, obr_counter,
              section_idx, msh_time, raised>>
batchVars == <<json_data_list, batch_pc, results>>
callsVars == <<calls, called_at>>
statusVars == <<amia_status, claria_status, reprocess_amia, reprocess_claria, statement>>
scheduleVars == <<schedule_call, schedule_pc, schedule_current, occurrences>>

-----------------------------------------------------------------------------
(* Bounds of the model.                                                    *)

MaxKeyLen == 3
MaxListLen == 2
MaxRows == 3
MaxCycles == 2
MaxClock == 2
MaxBatch == 3
\* the clock's last value during a batch
MaxBatchClock == 1
\* the clock's last value while two calls run on one generator
MaxCallsClock == 1

-----------------------------------------------------------------------------
(* Python values.                                                          *)

None == <<>>
Some(s) == <<s>>

VNone == <<"none", 0>>
VInt(n) == <<"int", n>>
VStr(s) == <<"str", s>>
VList(items) == <<"list", items>>
VDict(pairs) == <<"dict", pairs>>

IsNone(v) == v[1] = "none"
IsList(v) == v[1] = "list"
IsDict(v) == v[1] = "dict"

\* bool(v)
Truthy(v) ==
    CASE v[1] = "none" -> FALSE
      [] v[1] = "int" -> v[2] # 0
      [] v[1] = "str" -> v[2] # ""
      [] OTHER -> Len(v[2]) > 0

\* bool(cell) of a CSV cell
CellTruthy(c) == c # None /\ c[1] # ""

Ok(v) == [ok |-> TRUE, val |-> v, err |-> ""]
Raise(e) == [ok |-> FALSE, val |-> VNone, err |-> e]

\* key in d, d[key] / d.get(key), d[key] = val on an ordered dict's pairs
dict_has(pairs, key) == \E i \in DOMAIN pairs : pairs[i][1] = key
dict_at(pairs, key) == pairs[CHOOSE i \in DOMAIN pairs : pairs[i][1] = key][2]
dict_get(pairs, key) == IF dict_has(pairs, key) THEN dict_at(pairs, key) ELSE VNone
dict_set(pairs, key, val) ==
    IF dict_has(pairs, key)
    THEN [i \in DOMAIN pairs |-> IF pairs[i][1] = key THEN <<key, val>> ELSE pairs[i]]
    ELSE Append(pairs, <<key, val>>)
dict_keys(pairs) == [i \in DOMAIN pairs |-> pairs[i][1]]
dict_values(pairs) == [i \in DOMAIN pairs |-> pairs[i][2]]

-----------------------------------------------------------------------------
(* str.replace (one character for one character), str.upper, str.split.    *)

RECURSIVE str_replace(_, _, _)
str_replace(s, old, new) ==
    IF s = "" THEN ""
    ELSE (IF SubSeq(s, 1, 1) = old THEN new ELSE SubSeq(s, 1, 1))
         \o str_replace(SubSeq(s, 2, Len(s)), old, new)

upper_char(c) ==
    CASE c = "a" -> "A" [] c = "b" -> "B" [] c = "c" -> "C" [] c = "d" -> "D"
      [] c = "e" -> "E" [] c = "f" -> "F" [] c = "g" -> "G" [] c = "h" -> "H"
      [] c = "i" -> "I" [] c = "j" -> "J" [] c = "k" -> "K" [] c = "l" -> "L"
      [] c = "m" -> "M" [] c = "n" -> "N" [] c = "o" -> "O" [] c = "p" -> "P"
      [] c = "q" -> "Q" [] c = "r" -> "R" [] c = "s" -> "S" [] c = "t" -> "T"
      [] c = "u" -> "U" [] c = "v" -> "V" [] c = "w" -> "W" [] c = "x" -> "X"
      [] c = "y" -> "Y" [] c = "z" -> "Z" [] OTHER -> c

RECURSIVE str_upper(_)
str_upper(s) ==
    IF s = "" THEN ""
    ELSE upper_char(SubSeq(s, 1, 1)) \o str_upper(SubSeq(s, 2, Len(s)))

\* the pieces of s between the separators: one more piece than separators
RECURSIVE str_split(_, _)
str_split(s, sep) ==
    IF s = "" THEN <<"">>
    ELSE LET rest == str_split(SubSeq(s, 2, Len(s)), sep) IN
         IF SubSeq(s, 1, 1) = sep THEN <<"">> \o rest
         ELSE <<SubSeq(s, 1, 1) \o Head(rest)>> \o Tail(rest)

-----------------------------------------------------------------------------
(* Key normalization: at compile time (_build_dynamic_mappings, line 42)   *)
(* and at lookup time (_normalize_json_data, line 97).                     *)

normalize_config_key(attr) == str_upper(str_replace(attr, " ", "_"))

\* underscores turned into hyphens before spaces are turned into underscores
normalize_record_key_unstable(key) ==
    str_upper(str_replace(str_replace(key, "_", "-"), " ", "_"))

normalize_record_key(key) ==
    str_upper(str_replace(str_replace(key, " ", "_"), "-", "_"))

RECURSIVE normalize_json_data(_)
RECURSIVE normalize_pairs(_, _)
normalize_pairs(pairs, normalized) ==
    IF pairs = <<>> THEN normalized
    ELSE normalize_pairs(Tail(pairs),
             dict_set(normalized, normalize_record_key(Head(pairs)[1]),
                      normalize_json_data(Head(pairs)[2])))

normalize_json_data(data) ==
    IF IsDict(data) THEN VDict(normalize_pairs(data[2], <<>>))
    ELSE IF IsList(data)
         THEN VList([i \in DOMAIN data[2] |-> normalize_json_data(data[2][i])])
         ELSE data

-----------------------------------------------------------------------------
(* _get_field_value: the walk along the dotted path, then the except       *)
(* clause.                                                                 *)

\* [item.get(key) for item in current]: .get exists on dicts only
project_list(items, key) ==
    IF \E i \in DOMAIN items : ~IsDict(items[i])
    THEN Raise("AttributeError")
    ELSE Ok(VList([i \in DOMAIN items |-> dict_get(items[i][2], key)]))

\* lines 114-123: one key of the path.  The two "return None" leave the
\* loop with None, which is also what every later key makes of None.
path_step(current, key) ==
    IF IsDict(current) /\ dict_has(current[2], key)
    THEN Ok(dict_get(current[2], key))
    ELSE IF IsList(current) /\ Len(current[2]) > 0
         THEN IF IsDict(current[2][1]) /\ dict_has(current[2][1][2], key)
              THEN project_list(current[2], key)
              ELSE Ok(VNone)
         ELSE Ok(VNone)

\* lines 113-124: the loop over the keys, left at the first exception
RECURSIVE walk_path(_, _)
walk_path(r, keys) ==
    IF ~r.ok \/ keys = <<>> THEN r
    ELSE walk_path(path_step(r.val, Head(keys)), Tail(keys))

CaughtByGetFieldValue == {"KeyError", "IndexError", "TypeError"}

\* lines 125-126: except (KeyError, IndexError, TypeError): return None
except_lookup(r) ==
    IF ~r.ok /\ r.err \in CaughtByGetFieldValue THEN Ok(VNone) ELSE r

get_field_value(data, path) ==
    except_lookup(walk_path(Ok(data), str_split(path, ".")))

-----------------------------------------------------------------------------
(* int(s) for a str: surrounding whitespace, an optional sign, digits with *)
(* single underscores between them; anything else is a ValueError.         *)

Digits == <<"0", "1", "2", "3", "4", "5", "6", "7", "8", "9">>
IsDigit(c) == \E d \in DOMAIN Digits : Digits[d] = c
DigitValue(c) == (CHOOSE d \in DOMAIN Digits : Digits[d] = c) - 1

RECURSIVE str_lstrip(_)
str_lstrip(s) ==
    IF s # "" /\ SubSeq(s, 1, 1) = " " THEN str_lstrip(SubSeq(s, 2, Len(s))) ELSE s

RECURSIVE str_rstrip(_)
str_rstrip(s) ==
    IF s # "" /\ SubSeq(s, Len(s), Len(s)) = " "
    THEN str_rstrip(SubSeq(s, 1, Len(s) - 1)) ELSE s

\* the digits of a literal: every character a digit, or an underscore
\* that stands between two digits
WellFormedDigits(s) ==
    /\ s # ""
    /\ \A i \in 1..Len(s) :
          \/ IsDigit(SubSeq(s, i, i))
          \/ /\ SubSeq(s, i, i) = "_"
             /\ i > 1 /\ i < Len(s)
             /\ IsDigit(SubSeq(s, i - 1, i - 1))
             /\ IsDigit(SubSeq(s, i + 1, i + 1))

RECURSIVE digits_value(_, _)
digits_value(s, acc) ==
    IF s = "" THEN acc
    ELSE IF SubSeq(s, 1, 1) = "_" THEN digits_value(SubSeq(s, 2, Len(s)), acc)
         ELSE digits_value(SubSeq(s, 2, Len(s)),
                           10 * acc + DigitValue(SubSeq(s, 1, 1)))

parse_int(text) ==
    LET s == str_rstrip(str_lstrip(text))
        signed == s # "" /\ SubSeq(s, 1, 1) \in {"+", "-"}
        body == IF signed THEN SubSeq(s, 2, Len(s)) ELSE s
    IN  IF ~WellFormedDigits(body) THEN Raise("ValueError")
        ELSE Ok(IF signed /\ SubSeq(s, 1, 1) = "-"
                THEN 0 - digits_value(body, 0) ELSE digits_value(body, 0))

-----------------------------------------------------------------------------
(* sorted(items, key=...): a stable sort, here of <<key, item>> pairs.     *)

RECURSIVE insert_stable(_, _)
insert_stable(sorted, p) ==
    IF sorted = <<>> THEN <<p>>
    ELSE IF Head(sorted)[1] <= p[1]
         THEN <<Head(sorted)>> \o insert_stable(Tail(sorted), p)
         ELSE <<p>> \o sorted

RECURSIVE sort_keyed(_, _)
sort_keyed(keyed, acc) ==
    IF keyed = <<>> THEN acc
    ELSE sort_keyed(Tail(keyed), insert_stable(acc, Head(keyed)))

python_sorted(keyed) ==
    LET s == sort_keyed(keyed, <<>>) IN [i \in DOMAIN s |-> s[i][2]]

-----------------------------------------------------------------------------
(* _build_dynamic_mappings.  Every cell but SEQUENCE is a str (DictReader  *)
(* leaves None only in the trailing cells of a short line, and SEQUENCE    *)
(* is the last column).                                                    *)

DefaultSequence == 999

\* row[col] and row.get(col, '')
row_has(row, col) == col \in DOMAIN row
row_get(row, col) == IF row_has(row, col) THEN row[col][1] ELSE ""

SubscriptedColumns ==
    <<"SEGMENT", "JSON_ATTRIBUTE", "IDENTIFIER", "DISPLAY_NAME", "DATA_TYPE",
      "SEQUENCE">>

\* int(row['SEQUENCE']) if row['SEQUENCE'] else 999
row_sequence(row) ==
    IF CellTruthy(row["SEQUENCE"]) THEN parse_int(row["SEQUENCE"][1])
    ELSE Ok(DefaultSequence)

field_config_of(row, sequence) ==
    [identifier |-> row["IDENTIFIER"][1],
     display_name |-> row["DISPLAY_NAME"][1],
     data_type |-> row["DATA_TYPE"][1],
     unit |-> row_get(row, "UNIT"),
     sequence |-> sequence,
     json_attribute |-> normalize_config_key(row["JSON_ATTRIBUTE"][1]),
     child_obr |-> row_get(row, "CHILD_OBR"),
     segment_id |-> row_get(row, "SEGMENT_ID"),
     hl7_key |-> row_get(row, "HL7_KEY")]

EmptyMappings ==
    [segment_order |-> <<>>, segments |-> <<>>, obr_sections |-> <<>>,
     field_sequence |-> <<>>]

\* lines 57-75: file one row's field_config into the mappings
file_row(mappings, segment, fc) ==
    LET json_attr == fc.json_attribute
        order == IF \E i \in DOMAIN mappings.segment_order :
                        mappings.segment_order[i] = segment
                 THEN mappings.segment_order
                 ELSE Append(mappings.segment_order, segment)
        segs0 == IF dict_has(mappings.segments, segment)
                 THEN mappings.segments
                 ELSE Append(mappings.segments, <<segment, <<>>>>)
        grouped == segment = "OBX" /\ fc.child_obr # ""
        sections == IF ~grouped THEN mappings.obr_sections
                    ELSE LET s0 == IF dict_has(mappings.obr_sections, fc.child_obr)
                                   THEN mappings.obr_sections
                                   ELSE Append(mappings.obr_sections,
                                               <<fc.child_obr, <<>>>>)
                         IN  dict_set(s0, fc.child_obr,
                                      Append(dict_at(s0, fc.child_obr), fc))
        segs == IF grouped THEN segs0
                ELSE dict_set(segs0, segment,
                              dict_set(dict_at(segs0, segment), json_attr, fc))
    IN  [segment_order |-> order, segments |-> segs, obr_sections |-> sections,
         field_sequence |-> dict_set(mappings.field_sequence,
                                     segment \o "_" \o json_attr, fc.sequence)]

\* lines 38-75: one iteration of the loop over the rows
add_row(mappings, row) ==
    IF \E i \in DOMAIN SubscriptedColumns : ~row_has(row, SubscriptedColumns[i])
    THEN Raise("KeyError")
    ELSE LET sequence == row_sequence(row) IN
         IF ~sequence.ok THEN sequence
         ELSE Ok(file_row(mappings, row["SEGMENT"][1],
                          field_config_of(row, sequence.val)))

RECURSIVE add_rows(_, _)
add_rows(mappings, rows) ==
    IF rows = <<>> THEN Ok(mappings)
    ELSE LET r == add_row(mappings, Head(rows)) IN
         IF r.ok THEN add_rows(r.val, Tail(rows)) ELSE r

\* lines 77-88: sort every segment's fields and every section's fields
sort_fields(pairs) ==
    python_sorted([i \in DOMAIN pairs |-> <<pairs[i][2].sequence, pairs[i]>>])

sort_section(fields) ==
    python_sorted([i \in DOMAIN fields |-> <<fields[i].sequence, fields[i]>>])

sort_mappings(mappings) ==
    [mappings EXCEPT
        !.segments = [i \in DOMAIN mappings.segments |->
                         <<mappings.segments[i][1],
                           sort_fields(mappings.segments[i][2])>>],
        !.obr_sections = [i \in DOMAIN mappings.obr_sections |->
                             <<mappings.obr_sections[i][1],
                               sort_section(mappings.obr_sections[i][2])>>]]

build_dynamic_mappings(rows) ==
    LET r == add_rows(EmptyMappings, rows) IN
    IF r.ok THEN Ok(sort_mappings(r.val)) ELSE r


-----------------------------------------------------------------------------
(* Values the variables of the other specifications rest at.               *)

\* a datetime (schedule.py); seconds are zero in every datetime of the model
NoDate == [year |-> 0, month |-> 0, day |-> 0, hour |-> 0, minute |-> 0]
NoSchedule == [function |-> "", start_date |-> NoDate, end_date |-> NoDate,
               day |-> 0, task_duration |-> 0, time_of_day |-> <<>>]

IdleNorm == raw_key = "" /\ config_key = None /\ record_key = None
IdlePath ==
    tree = VNone /\ field_path = "" /\ normalized_tree = None /\ resolved = None
IdleCompile == fieldnames = {} /\ config_data = <<>> /\ construct = "idle"
IdleCall ==
    /\ json_data = VNone /\ pc = "idle" /\ normalized_data = VNone
    /\ hl7_segments = <<>> /\ obr_counter = 0 /\ section_idx = 0
    /\ msh_time = 0 /\ raised = ""
IdleBatch == json_data_list = <<>> /\ batch_pc = "idle" /\ results = <<>>
IdleCalls == calls = <<>> /\ called_at = <<>>
IdleSchedule == schedule_call = NoSchedule /\ schedule_pc = "idle"
    /\ schedule_current = NoDate /\ occurrences = <<>>
IdleStatus == amia_status = "" /\ claria_status = "" /\ reprocess_amia = None
    /\ reprocess_claria = None /\ statement = None

RECURSIVE SeqsUpTo(_, _)
SeqsUpTo(S, n) ==
    IF n = 0 THEN {<<>>}
    ELSE LET shorter == SeqsUpTo(S, n - 1) IN
         shorter \cup {Append(q, x) : q \in shorter, x \in S}

-----------------------------------------------------------------------------
(* SpecNorm: the two key normalizations, applied to one attribute name.    *)

KeyAlphabet == {"a", "B", " ", "-", "_"}

RECURSIVE KeysUpTo(_)
KeysUpTo(n) ==
    IF n = 0 THEN {""}
    ELSE LET shorter == KeysUpTo(n - 1) IN
         shorter \cup {k \o c : k \in shorter, c \in KeyAlphabet}

InitNorm ==
    /\ raw_key \in KeysUpTo(MaxKeyLen)
    /\ config_key = None /\ record_key = None
    /\ IdlePath /\ IdleCompile /\ IdleCall /\ IdleBatch
    /\ IdleCalls
    /\ IdleSchedule
    /\ IdleStatus
    /\ segment_mappings = EmptyMappings /\ clock = 0

\* line 42: the attribute name of a configuration row
CompileKey ==
    /\ config_key = None
    /\ config_key' = Some(normalize_config_key(raw_key))
    /\ UNCHANGED <<scheduleVars, statusVars, callsVars, raw_key, record_key, pathVars, compileVars, callVars,
                   batchVars, segment_mappings, clock>>

\* line 97: the same name as a key of the record
LookupKey ==
    /\ record_key = None
    /\ record_key' = Some(normalize_record_key(raw_key))
    /\ UNCHANGED <<scheduleVars, statusVars, callsVars, raw_key, config_key, pathVars, compileVars, callVars,
                   batchVars, segment_mappings, clock>>

NextNorm == CompileKey \/ LookupKey

SpecNorm == InitNorm /\ [][NextNorm]_vars

-----------------------------------------------------------------------------
(* SpecPath: _normalize_json_data, then _get_field_value, on one tree and  *)
(* one path.                                                               *)

PathScalars == {VInt(0), VStr("x"), VNone}

PathRecords ==
    {VDict(<<>>)}
    \cup {VDict(<<<<"k", a>>>>) : a \in PathScalars}
    \cup {VDict(<<<<"Z", a>>>>) : a \in PathScalars}
    \cup {VDict(<<<<"k", a>>, <<"Z", b>>>>) : a \in PathScalars, b \in PathScalars}
    \cup {VDict(<<<<"a b", VInt(0)>>, <<"a-b", VStr("x")>>>>),
          VDict(<<<<"a b", VDict(<<<<"c-d", VInt(0)>>>>)>>>>)}

PathItems == PathScalars \cup PathRecords

PathTrees ==
    {VDict(<<<<"l", x>>>>) : x \in PathItems}
    \cup {VDict(<<<<"l", VList(q)>>>>) : q \in SeqsUpTo(PathItems, MaxListLen)}

Paths == {"", "L", "K", "L.K", "L.Z", "L.K.Z"}

InitPath ==
    /\ tree \in PathTrees /\ field_path \in Paths
    /\ normalized_tree = None /\ resolved = None
    /\ IdleNorm /\ IdleCompile /\ IdleCall /\ IdleBatch
    /\ IdleCalls
    /\ IdleSchedule
    /\ IdleStatus
    /\ segment_mappings = EmptyMappings /\ clock = 0

NormalizeTree ==
    /\ normalized_tree = None
    /\ normalized_tree' = Some(normalize_json_data(tree))
    /\ UNCHANGED <<scheduleVars, statusVars, callsVars, tree, field_path, resolved, normVars, compileVars, callVars,
                   batchVars, segment_mappings, clock>>

Resolve ==
    /\ normalized_tree # None /\ resolved = None
    /\ resolved' = Some(get_field_value(normalized_tree[1], field_path))
    /\ UNCHANGED <<scheduleVars, statusVars, callsVars, tree, field_path, normalized_tree, normVars, compileVars,
                   callVars, batchVars, segment_mappings, clock>>

NextPath == NormalizeTree \/ Resolve

SpecPath == InitPath /\ [][NextPath]_vars

-----------------------------------------------------------------------------
(* SpecCompile: the constructor, on a row schema and up to MaxRows rows.   *)

Columns ==
    {"SEGMENT", "SEGMENT_ID", "CHILD_OBR", "JSON_ATTRIBUTE", "HL7_KEY",
     "IDENTIFIER", "DISPLAY_NAME", "DATA_TYPE", "UNIT", "SEQUENCE"}

Schemas == {Columns} \cup {Columns \ {c} : c \in Columns}

\* <<segment, attribute name, child-group tag, SEQUENCE cell>>
RowTemplates ==
    {<<"PID", "Pat Id", "", Some("2")>>, <<"PID", "pat id", "", Some("2")>>,
     <<"PID", "Name", "", Some("1")>>, <<"PID", "Name", "", Some("")>>,
     <<"PID", "Age", "", None>>, <<"PID", "Age", "", Some("x")>>,
     <<"OBR", "G1", "", Some("1")>>,
     <<"OBX", "Vol", "G1", Some("2")>>, <<"OBX", "Time", "G1", Some("1")>>,
     <<"OBX", "Pre-Wt", "G1", Some(" 3 ")>>,
     <<"OBX", "Vol", "G2", Some("2")>>, <<"OBX", "Vol", "", Some("1")>>}

\* the identifier of the i-th row tells the rows apart
RowIdentifier(i) == "I" \o Digits[i + 1]

make_row(schema, t, i) ==
    [c \in schema |->
        CASE c = "SEGMENT" -> Some(t[1])
          [] c = "JSON_ATTRIBUTE" -> Some(t[2])
          [] c = "CHILD_OBR" -> Some(t[3])
          [] c = "SEQUENCE" -> t[4]
          [] c = "IDENTIFIER" -> Some(RowIdentifier(i))
          [] c = "DISPLAY_NAME" -> Some("D" \o RowIdentifier(i))
          [] c = "DATA_TYPE" -> Some("NM")
          [] OTHER -> Some("")]

make_rows(schema, ts) == [i \in DOMAIN ts |-> make_row(schema, ts[i], i)]

InitCompile ==
    /\ fieldnames \in Schemas
    /\ \E ts \in SeqsUpTo(RowTemplates, MaxRows) :
           config_data = make_rows(fieldnames, ts)
    /\ construct = "new" /\ segment_mappings = EmptyMappings
    /\ IdleNorm /\ IdlePath /\ IdleCall /\ IdleBatch /\ clock = 0
    /\ IdleCalls
    /\ IdleSchedule
    /\ IdleStatus

\* __init__, lines 10-14
Construct ==
    /\ construct = "new"
    /\ LET r == build_dynamic_mappings(config_data) IN
       /\ construct' = IF r.ok THEN "ok" ELSE r.err
       /\ segment_mappings' = IF r.ok THEN r.val ELSE EmptyMappings
    /\ UNCHANGED <<scheduleVars, statusVars, callsVars, fieldnames, config_data, normVars, pathVars, callVars,
                   batchVars, clock>>

NextCompile == Construct

SpecCompile == InitCompile /\ [][NextCompile]_vars


-----------------------------------------------------------------------------
(* Output lines.                                                           *)

Version == "2.5"
PidMinFields == 4
FirstSectionCounter == 2
TimestampBase == 23
BtsCount == 100

\* value or default, as in "x or ''"
or_else(v, default) == IF Truthy(v) THEN v ELSE default

obx_line(obx_config, value, obr_set_id, obx_set_id) ==
    [tag |-> "OBX", set_id |-> obx_set_id, data_type |-> obx_config.data_type,
     identifier |-> obx_config.identifier,
     display_name |-> obx_config.display_name,
     obr_set_id |-> obr_set_id, value |-> value, unit |-> obx_config.unit]

obr_line(obr_ctr, identifier, display_name) ==
    [tag |-> "OBR", set_id |-> obr_ctr, identifier |-> identifier,
     display_name |-> display_name, timestamp_suffix |-> TimestampBase + obr_ctr]

\* line 285: "OBR|1|||VITAL_SIGNS^Vitals Panel^CLINIC_APP|||20251015123423"
InitialObr ==
    [tag |-> "OBR", set_id |-> 1, identifier |-> "VITAL_SIGNS",
     display_name |-> "Vitals Panel^CLINIC_APP", timestamp_suffix |-> TimestampBase]

DeviceTypeConfig ==
    [data_type |-> "ST", identifier |-> "DEVICE_TYPE",
     display_name |-> "Device Type", unit |-> ""]

BtsLine == [tag |-> "BTS", set_id |-> 1, text |-> "final segment", count |-> BtsCount]

-----------------------------------------------------------------------------
(* _build_segment.  times holds the values _get_timestamp returns, in      *)
(* call order (two for MSH, one for BHS and for ORC).                      *)

build_msh(times) ==
    Ok(<<[tag |-> "MSH", time |-> times[1], control_id |-> times[2],
          version |-> Version]>>)

\* data.get('BATCH', {}), then batch_data.get(...) twice
build_bhs(data, times) ==
    IF ~IsDict(data) THEN Raise("AttributeError")
    ELSE LET batch_data == IF dict_has(data[2], "BATCH")
                           THEN dict_at(data[2], "BATCH") ELSE VDict(<<>>)
         IN  IF ~IsDict(batch_data) THEN Raise("AttributeError")
             ELSE Ok(<<[tag |-> "BHS", time |-> times[1],
                        batch_type |-> IF dict_has(batch_data[2], "TYPE")
                                       THEN dict_at(batch_data[2], "TYPE")
                                       ELSE VStr("Normal"),
                        batch_id |-> IF dict_has(batch_data[2], "ID")
                                     THEN dict_at(batch_data[2], "ID")
                                     ELSE VStr("")]>>)

\* lines 152-156: the identifier token of one PID field, if it has one
pid_id_field(field_config, field_value, id_fields) ==
    IF ~field_value.ok THEN field_value
    ELSE IF ~Truthy(field_value.val) THEN Ok(id_fields)
    ELSE IF field_config.json_attribute \in {"ERP_PATIENT_ID", "BAXTER_PATIENT_ID"}
    THEN Ok(Append(id_fields, <<"id", field_value.val, "Baxter_Patient_ID">>))
    ELSE IF field_config.json_attribute = "CLINIC_PATIENT_ID"
    THEN Ok(Append(id_fields, <<"id", field_value.val, "Clinic_Patient_ID">>))
    ELSE Ok(id_fields)

\* lines 150-156: the identifier tokens, in the order of the PID fields;
\* id_fields is the result so far
RECURSIVE pid_id_fields(_, _, _)
pid_id_fields(configs, data, id_fields) ==
    IF ~id_fields.ok \/ configs = <<>> THEN id_fields
    ELSE pid_id_fields(Tail(configs), data,
            pid_id_field(Head(configs),
                get_field_value(data, "PATIENT_INFO."
                                      \o Head(configs).json_attribute),
                id_fields.val))

EmptyField == <<"empty">>

\* line 159: [''] * (4 - len(id_fields))
pid_padding(id_fields) ==
    IF Len(id_fields) < PidMinFields
    THEN [i \in 1..(PidMinFields - Len(id_fields)) |-> EmptyField]
    ELSE <<>>

\* lines 165-168: the name field
pid_name(first_name, last_name, middle_name) ==
    IF Truthy(first_name) \/ Truthy(last_name)
    THEN <<"name", or_else(last_name, VStr("")), or_else(first_name, VStr("")),
           or_else(middle_name, VStr(""))>>
    ELSE EmptyField

\* lines 159-170, given the results of the lookups of lines 150-164
pid_line(set_id, id_fields, first_name, last_name, middle_name) ==
    IF ~id_fields.ok THEN id_fields
    ELSE IF ~first_name.ok THEN first_name
    ELSE IF ~last_name.ok THEN last_name
    ELSE IF ~middle_name.ok THEN middle_name
    ELSE Ok(<<[tag |-> "PID", set_id |-> set_id,
               fields |-> id_fields.val \o pid_padding(id_fields.val)
                          \o <<pid_name(first_name.val, last_name.val,
                                        middle_name.val)>>]>>)

build_pid(mappings, data, set_id) ==
    IF ~dict_has(mappings.segments, "PID") THEN Raise("KeyError")
    ELSE pid_line(set_id,
             pid_id_fields(dict_values(dict_at(mappings.segments, "PID")),
                           data, Ok(<<>>)),
             get_field_value(data, "PATIENT_INFO.FIRST_NAME"),
             get_field_value(data, "PATIENT_INFO.LAST_NAME"),
             get_field_value(data, "PATIENT_INFO.MIDDLE_NAME"))

pv1_line(set_id, clinic_name) ==
    IF ~clinic_name.ok THEN clinic_name
    ELSE Ok(<<[tag |-> "PV1", set_id |-> set_id,
               clinic_name |-> or_else(clinic_name.val, VStr("XYZClinic"))]>>)

build_pv1(data, set_id) ==
    pv1_line(set_id, get_field_value(data, "PATIENT_INFO.CLINIC_NAME"))

orc_line(treatment_id, times) ==
    IF ~treatment_id.ok THEN treatment_id
    ELSE Ok(<<[tag |-> "ORC",
               treatment_id |-> or_else(treatment_id.val, VStr("")),
               time |-> times[1]]>>)

build_orc(data, times) ==
    orc_line(get_field_value(data, "PATIENT_INFO.TREATMENT_ID"), times)

build_segment(mappings, segment_type, data, set_id, times) ==
    CASE segment_type = "MSH" -> build_msh(times)
      [] segment_type = "BHS" -> build_bhs(data, times)
      [] segment_type = "PID" -> build_pid(mappings, data, set_id)
      [] segment_type = "PV1" -> build_pv1(data, set_id)
      [] segment_type = "ORC" -> build_orc(data, times)
      [] OTHER -> Ok(<<>>)

-----------------------------------------------------------------------------
(* _process_nested_obx and _build_obr_section.                             *)

\* obr_sections.get(tag, [])
section_fields(mappings, tag) ==
    IF dict_has(mappings.obr_sections, tag)
    THEN dict_at(mappings.obr_sections, tag) ELSE <<>>

\* the first configured field of the section whose json_attribute is key
has_matching_config(fields, key) ==
    \E i \in DOMAIN fields : fields[i].json_attribute = key
matching_config(fields, key) ==
    fields[CHOOSE i \in DOMAIN fields :
              /\ fields[i].json_attribute = key
              /\ \A j \in 1..(i - 1) : fields[j].json_attribute # key]

\* _add_obx_segment and the obx_counter += 1 that follows each call of it;
\* st = [segments, obr_ctr, obx_counter]
add_obx_segment(st, obx_config, value) ==
    [st EXCEPT !.segments = Append(st.segments,
                                obx_line(obx_config, value, st.obr_ctr,
                                         st.obx_counter)),
               !.obx_counter = st.obx_counter + 1]

\* lines 239-246 and 249-257: a line for the key when the section has a
\* field of that key
add_matching(fields, key, value, st) ==
    IF has_matching_config(fields, key)
    THEN add_obx_segment(st, matching_config(fields, key), value)
    ELSE st

\* lines 237-246: the attributes of a CYCLEATTRIBUTES sub-record
RECURSIVE nested_attributes(_, _, _)
nested_attributes(fields, pairs, st) ==
    IF pairs = <<>> THEN st
    ELSE nested_attributes(fields, Tail(pairs),
            add_matching(fields, Head(pairs)[1], Head(pairs)[2], st))

\* lines 235-257: one item of nested_data.items(); value.items() exists on
\* dicts only
nested_item(fields, key, value, st) ==
    IF key = "CYCLEATTRIBUTES"
    THEN IF IsDict(value) THEN Ok(nested_attributes(fields, value[2], st))
         ELSE Raise("AttributeError")
    ELSE Ok(add_matching(fields, key, value, st))

\* lines 234-257: the loop over nested_data.items(); r is the result so far
RECURSIVE nested_items(_, _, _)
nested_items(fields, pairs, r) ==
    IF ~r.ok \/ pairs = <<>> THEN r
    ELSE nested_items(fields, Tail(pairs),
            nested_item(fields, Head(pairs)[1], Head(pairs)[2], r.val))

process_nested_obx(mappings, st, nested_data, obx_config) ==
    nested_items(section_fields(mappings, obx_config.child_obr),
                 nested_data[2], Ok(st))

\* lines 218-219: obr_counter += 1; obx_counter = 1.  The obx_counter that
\* _process_nested_obx counted with was its own.
after_nested(r) ==
    IF r.ok THEN Ok([segments |-> r.val.segments, obr_ctr |-> r.val.obr_ctr + 1,
                     obx_counter |-> 1])
    ELSE r

\* lines 215-222: one item of a list value
list_item(mappings, obx_config, item, st) ==
    IF IsDict(item)
    THEN after_nested(process_nested_obx(mappings, st, item, obx_config))
    ELSE Ok(add_obx_segment(st, obx_config, item))

\* lines 214-222: the loop over the items; r is the result so far
RECURSIVE list_items(_, _, _, _)
list_items(mappings, obx_config, items, r) ==
    IF ~r.ok \/ items = <<>> THEN r
    ELSE list_items(mappings, obx_config, Tail(items),
                    list_item(mappings, obx_config, Head(items), r.val))

\* lines 207-209: the lookup under the section's own key when the first
\* lookup gave None
or_nested_lookup(field_value, obr_section, data, json_attr) ==
    IF field_value.ok /\ IsNone(field_value.val)
    THEN get_field_value(data, obr_section \o "." \o json_attr)
    ELSE field_value

\* lines 205-209: the value of a child field
child_field_value(obr_section, data, json_attr) ==
    or_nested_lookup(get_field_value(data, json_attr), obr_section, data,
                     json_attr)

\* lines 211-225: the lines of one child field, given its value
obx_field(mappings, obx_config, field_value, st) ==
    IF ~field_value.ok THEN field_value
    ELSE IF IsNone(field_value.val) THEN Ok(st)
    ELSE IF IsList(field_value.val)
    THEN list_items(mappings, obx_config, field_value.val[2], Ok(st))
    ELSE Ok(add_obx_segment(st, obx_config, field_value.val))

\* lines 202-225: the loop over the section's child fields; r is the
\* result so far
RECURSIVE obx_fields_loop(_, _, _, _, _)
obx_fields_loop(mappings, obr_section, data, obx_fields, r) ==
    IF ~r.ok \/ obx_fields = <<>> THEN r
    ELSE obx_fields_loop(mappings, obr_section, data, Tail(obx_fields),
            obx_field(mappings, Head(obx_fields),
                child_field_value(obr_section, data,
                                  Head(obx_fields).json_attribute),
                r.val))

\* line 227: return segments
section_segments(r) == IF r.ok THEN Ok(r.val.segments) ELSE r

\* lines 191-196: the section's parent line
section_obr_line(obr_config, obr_ctr) ==
    obr_line(obr_ctr, obr_config.identifier, obr_config.display_name)

build_obr_section(mappings, obr_section, data, obr_ctr) ==
    IF ~dict_has(mappings.segments, "OBR") THEN Raise("KeyError")
    ELSE IF ~dict_has(dict_at(mappings.segments, "OBR"), obr_section)
    THEN Ok(<<>>)
    ELSE section_segments(
             obx_fields_loop(mappings, obr_section, data,
                 section_fields(mappings, obr_section),
                 Ok([segments |->
                        <<section_obr_line(
                              dict_at(dict_at(mappings.segments, "OBR"),
                                      obr_section), obr_ctr)>>,
                     obr_ctr |-> obr_ctr, obx_counter |-> 1])))

-----------------------------------------------------------------------------
(* generate_hl7, one step at a time.  A call is                            *)
(*   [pc, json, data, segments, obr_ctr, idx, msh_time, err]:              *)
(* json the argument, data the normalized record, segments hl7_segments,   *)
(* idx the position in obr_sections.keys(), msh_time the first of the two  *)
(* timestamps of the MSH line, err the exception that ended the call.      *)

new_call(json) ==
    [pc |-> "start", json |-> json, data |-> VNone, segments |-> <<>>,
     obr_ctr |-> 0, idx |-> 0, msh_time |-> 0, err |-> ""]

raise_in(c, e) == [c EXCEPT !.pc = "raised", !.err = e]

\* lines 280-282: extend hl7_segments with one built segment
extend_with(c, r, next_pc) ==
    IF r.ok THEN [c EXCEPT !.segments = c.segments \o r.val, !.pc = next_pc]
    ELSE raise_in(c, r.err)

\* lines 284-297: the fixed lines, and the counter's first value
fixed_lines_added(mappings, c, treatment_id, device_type) ==
    IF ~treatment_id.ok THEN raise_in(c, treatment_id.err)
    ELSE IF ~device_type.ok THEN raise_in(c, device_type.err)
    ELSE [c EXCEPT
             !.segments = c.segments
                 \o <<InitialObr,
                      [tag |-> "NTE", set_id |-> 1, label |-> "Treatment ID",
                       value |-> or_else(treatment_id.val, VStr(""))],
                      [tag |-> "NTE", set_id |-> 2, label |-> "Clinic Timezone",
                       value |-> VStr("PST")]>>
                 \o (IF Truthy(device_type.val)
                     THEN <<obx_line(DeviceTypeConfig, device_type.val, 1, 1)>>
                     ELSE <<>>),
             !.obr_ctr = FirstSectionCounter,
             !.idx = 1,
             !.pc = IF mappings.obr_sections = <<>> THEN "BTS" ELSE "sections"]

add_fixed_lines(mappings, c) ==
    fixed_lines_added(mappings, c,
        get_field_value(c.data, "PATIENT_INFO.TREATMENT_ID"),
        get_field_value(c.data, "PATIENT_INFO.DEVICE_TYPE"))

\* the counter left where it was when a section returns
next_obr_counter_kept(obr_ctr, obr_segments) == obr_ctr

\* lines 303-304: the counter after a section
next_obr_counter(obr_ctr, obr_segments) ==
    obr_ctr + Cardinality({i \in DOMAIN obr_segments : obr_segments[i].tag = "OBR"})

\* lines 302-304: extend hl7_segments with a section's lines and count its
\* parent lines
section_added(mappings, c, obr_segments) ==
    IF ~obr_segments.ok THEN raise_in(c, obr_segments.err)
    ELSE [c EXCEPT
             !.segments = c.segments \o obr_segments.val,
             !.obr_ctr = next_obr_counter(c.obr_ctr, obr_segments.val),
             !.idx = c.idx + 1,
             !.pc = IF c.idx + 1 > Len(mappings.obr_sections)
                    THEN "BTS" ELSE "sections"]

\* lines 298-304: one iteration of the loop over obr_sections.keys()
add_section(mappings, c) ==
    section_added(mappings, c,
        build_obr_section(mappings, mappings.obr_sections[c.idx][1], c.data,
                          c.obr_ctr))

\* line 275
normalize_step(c) ==
    [c EXCEPT !.data = normalize_json_data(c.json), !.pc = "BHS"]

\* lines 280-282, one segment type each; building MSH reads the clock
\* twice (lines 133 and 134)
bhs_step(mappings, c, now) ==
    extend_with(c, build_segment(mappings, "BHS", c.data, 1, <<now>>), "MSH")
msh_time_step(c, now) == [c EXCEPT !.msh_time = now, !.pc = "MSH2"]
msh_step(mappings, c, now) ==
    extend_with(c, build_segment(mappings, "MSH", c.data, 1,
                                 <<c.msh_time, now>>), "PID")
pid_step(mappings, c) ==
    extend_with(c, build_segment(mappings, "PID", c.data, 1, <<>>), "PV1")
pv1_step(mappings, c) ==
    extend_with(c, build_segment(mappings, "PV1", c.data, 1, <<>>), "ORC")
orc_step(mappings, c, now) ==
    extend_with(c, build_segment(mappings, "ORC", c.data, 1, <<now>>), "fixed")

\* line 307
\* the trailer put in front of the message
bts_step_in_front(c) ==
    [c EXCEPT !.segments = <<BtsLine>> \o c.segments, !.pc = "done"]

bts_step(c) == [c EXCEPT !.segments = Append(c.segments, BtsLine), !.pc = "done"]

ClockReadingSteps == {"BHS", "MSH", "MSH2", "ORC"}

call_step(mappings, c, now) ==
    CASE c.pc = "start" -> normalize_step(c)
      [] c.pc = "BHS" -> bhs_step(mappings, c, now)
      [] c.pc = "MSH" -> msh_time_step(c, now)
      [] c.pc = "MSH2" -> msh_step(mappings, c, now)
      [] c.pc = "PID" -> pid_step(mappings, c)
      [] c.pc = "PV1" -> pv1_step(mappings, c)
      [] c.pc = "ORC" -> orc_step(mappings, c, now)
      [] c.pc = "fixed" -> add_fixed_lines(mappings, c)
      [] c.pc = "sections" -> add_section(mappings, c)
      [] c.pc = "BTS" -> bts_step(c)
      [] OTHER -> c

\* the whole call, times being the clock's values at its four readings
RECURSIVE run_call(_, _, _)
run_call(mappings, c, times) ==
    IF c.pc \in {"done", "raised"} THEN c
    ELSE run_call(mappings,
             call_step(mappings, c,
                       IF c.pc \in ClockReadingSteps THEN Head(times) ELSE 0),
             IF c.pc \in ClockReadingSteps THEN Tail(times) ELSE times)

\* the lines built so far returned as the message, also after an exception
call_result_partial(c) == Ok(c.segments)

\* lines 310-313: the exception is logged and raised again
call_result(c) == IF c.pc = "done" THEN Ok(c.segments) ELSE Raise(c.err)

generate_hl7(mappings, json, times) ==
    call_result(run_call(mappings, new_call(json), times))

-----------------------------------------------------------------------------
(* Configurations and records of the encoding specifications.              *)

config_row(segment, attr, child, sequence, identifier, unit) ==
    [c \in Columns |->
        CASE c = "SEGMENT" -> Some(segment)
          [] c = "JSON_ATTRIBUTE" -> Some(attr)
          [] c = "CHILD_OBR" -> Some(child)
          [] c = "SEQUENCE" -> Some(sequence)
          [] c = "IDENTIFIER" -> Some(identifier)
          [] c = "DISPLAY_NAME" -> Some(identifier \o " name")
          [] c = "DATA_TYPE" -> Some("NM")
          [] c = "UNIT" -> Some(unit)
          [] OTHER -> Some("")]

PidRows ==
    <<config_row("PID", "Clinic Patient ID", "", "2", "CPID", ""),
      config_row("PID", "Baxter Patient ID", "", "1", "BPID", "")>>

ObrRows ==
    <<config_row("OBR", "Therapy", "", "1", "THER", ""),
      config_row("OBR", "Totals", "", "2", "TOT", "")>>

TherapyRows ==
    <<config_row("OBX", "Therapy", "THERAPY", "1", "CYC", ""),
      config_row("OBX", "Fill Volume", "THERAPY", "3", "FILL", "mL"),
      config_row("OBX", "Cycle Type", "THERAPY", "2", "CTYPE", "")>>

TotalsRows == <<config_row("OBX", "Volume", "TOTALS", "1", "VOL", "mL")>>

\* a group whose field of scalars stands before its field of records
ScalarFirstRows ==
    <<config_row("OBX", "Cycle Type", "THERAPY", "1", "CTYPE", ""),
      config_row("OBX", "Therapy", "THERAPY", "2", "CYC", "")>>

\* every group with its OBR row; no group; a group without its OBR row;
\* groups and no OBR row at all; no group and no PID row; a group with a
\* field of scalars before its field of records
EncoderConfigs ==
    {PidRows \o ObrRows \o TherapyRows \o TotalsRows,
     PidRows \o <<ObrRows[2]>> \o TotalsRows \o TherapyRows,
     PidRows \o ObrRows,
     PidRows \o TotalsRows,
     ObrRows,
     PidRows \o ObrRows \o ScalarFirstRows}

GoodPatient ==
    VDict(<<<<"Clinic Patient ID", VStr("9820609")>>,
            <<"Baxter Patient ID", VStr("B7")>>,
            <<"Treatment ID", VInt(1264740)>>,
            <<"Device Type", VStr("CLARIA")>>,
            <<"First Name", VStr("John")>>, <<"Last Name", VStr("Doe")>>>>)

PatientInfos ==
    {<<<<"Patient Info", GoodPatient>>>>,
     <<>>,
     <<<<"patient-info", VDict(<<<<"Baxter Patient ID", VStr("B7")>>,
                                 <<"clinic patient id", VInt(0)>>,
                                 <<"Clinic Name", VStr("North")>>,
                                 <<"Treatment ID", VInt(0)>>,
                                 <<"Middle Name", VStr("Q")>>>>)>>>>,
     <<<<"Patient Info", VList(<<GoodPatient, VInt(5)>>)>>>>}

Batches ==
    {<<>>,
     <<<<"Batch", VDict(<<<<"ID", VStr("b1")>>, <<"Type", VStr("Urgent")>>>>)>>>>,
     <<<<"Batch", VStr("b1")>>>>}

CycleRecords ==
    {VDict(<<<<"Cycle Type", VStr("Night")>>,
             <<"CycleAttributes", VDict(<<<<"Fill Volume", VInt(100)>>,
                                          <<"Dwell Time", VInt(600)>>>>)>>>>),
     VDict(<<<<"Fill Volume", VInt(7)>>, <<"Cycle Type", VStr("Day")>>>>),
     VDict(<<<<"Drain", VInt(1)>>>>)}

Therapies ==
    {<<>>,
     <<<<"Therapy", VInt(5)>>>>,
     <<<<"Therapy", VList(<<VInt(1), VInt(2)>>)>>>>,
     <<<<"Therapy", VList(<<VDict(<<<<"CycleAttributes", VInt(1)>>>>)>>)>>>>}
    \cup {<<<<"Therapy", VList(q)>>>> :
             q \in SeqsUpTo(CycleRecords, MaxCycles) \ {<<>>}}

Totals ==
    {<<>>,
     <<<<"Totals", VDict(<<<<"Volume", VInt(3000)>>>>)>>>>,
     <<<<"Volume", VList(<<VInt(1), VInt(2)>>)>>>>}

GoodRecordHead == <<<<"Patient Info", GoodPatient>>>>

Records ==
    {VDict(p \o b) : p \in PatientInfos, b \in Batches}
    \cup {VDict(GoodRecordHead \o t \o g) : t \in Therapies, g \in Totals}

compiled(rows) == build_dynamic_mappings(rows).val

-----------------------------------------------------------------------------
(* Spec: one generate_hl7 call on one record, the clock advancing between  *)
(* its steps.                                                              *)

Init ==
    /\ \E rows \in EncoderConfigs :
          /\ fieldnames = Columns /\ config_data = rows /\ construct = "ok"
          /\ segment_mappings = compiled(rows)
    /\ json_data \in Records
    /\ pc = "start" /\ normalized_data = VNone /\ hl7_segments = <<>>
    /\ obr_counter = 0 /\ section_idx = 0 /\ msh_time = 0 /\ raised = ""
    /\ clock = 0
    /\ IdleNorm /\ IdlePath /\ IdleBatch
    /\ IdleCalls
    /\ IdleSchedule
    /\ IdleStatus

Call ==
    [pc |-> pc, json |-> json_data, data |-> normalized_data,
     segments |-> hl7_segments, obr_ctr |-> obr_counter, idx |-> section_idx,
     msh_time |-> msh_time, err |-> raised]

StepTo(p, c) ==
    /\ pc = p
    /\ pc' = c.pc /\ normalized_data' = c.data /\ hl7_segments' = c.segments
    /\ obr_counter' = c.obr_ctr /\ section_idx' = c.idx
    /\ msh_time' = c.msh_time /\ raised' = c.err
    /\ UNCHANGED <<scheduleVars, statusVars, callsVars, json_data, normVars, pathVars, compileVars, batchVars,
                   segment_mappings, clock>>

Normalize == StepTo("start", normalize_step(Call))
BuildBHS == StepTo("BHS", bhs_step(segment_mappings, Call, clock))
ReadMshTime == StepTo("MSH", msh_time_step(Call, clock))
BuildMSH == StepTo("MSH2", msh_step(segment_mappings, Call, clock))
BuildPID == StepTo("PID", pid_step(segment_mappings, Call))
BuildPV1 == StepTo("PV1", pv1_step(segment_mappings, Call))
BuildORC == StepTo("ORC", orc_step(segment_mappings, Call, clock))
AddFixedLines == StepTo("fixed", add_fixed_lines(segment_mappings, Call))
BuildSection == StepTo("sections", add_section(segment_mappings, Call))
AddBTS == StepTo("BTS", bts_step(Call))

\* a second passes while the call runs
Tick ==
    /\ pc \notin {"done", "raised"}
    /\ clock < MaxClock
    /\ clock' = clock + 1
    /\ UNCHANGED <<scheduleVars, statusVars, callsVars, normVars, pathVars, compileVars, callVars, batchVars,
                   segment_mappings>>

Next ==
    \/ Normalize \/ BuildBHS \/ ReadMshTime \/ BuildMSH \/ BuildPID
    \/ BuildPV1 \/ BuildORC \/ AddFixedLines \/ BuildSection \/ AddBTS
    \/ Tick

Spec == Init /\ [][Next]_vars


-----------------------------------------------------------------------------
(* SpecBatch: process_batch on up to MaxBatch records.  One iteration of   *)
(* its loop is one step; the clock is read four times by generate_hl7 and  *)
(* once for the outcome's timestamp, and may advance between the reads.    *)

\* lines 330-343: the appended dict.  The key an outcome lacks is None
\* here, and str(e) is the exception's class.
outcome(i, r, stamp) ==
    IF r.ok
    THEN [sequence |-> i, status |-> "success", hl7_message |-> Some(r.val),
          error |-> None, timestamp |-> stamp]
    ELSE [sequence |-> i, status |-> "error", hl7_message |-> None,
          error |-> Some(r.err), timestamp |-> stamp]

\* lines 327-344: the body of the loop, for the i-th record
process_record(mappings, i, json, times) ==
    outcome(i, generate_hl7(mappings, json, SubSeq(times, 1, 4)), times[5])

\* the loop left at the first record that fails
batch_finished_at_error(list, outcomes) ==
    \/ Len(outcomes) = Len(list)
    \/ outcomes # <<>> /\ outcomes[Len(outcomes)].status = "error"

\* line 327: the loop ends when every record has its outcome
batch_finished(list, outcomes) == Len(outcomes) = Len(list)

ClockReadings(from, n) ==
    {t \in [1..n -> from..MaxBatchClock] : \A i \in 1..(n - 1) : t[i] <= t[i + 1]}

\* a record that encodes and a record whose BATCH is not a mapping
BatchRecords ==
    {VDict(GoodRecordHead \o <<<<"Therapy", VList(<<VInt(1), VInt(2)>>)>>>>),
     VDict(<<<<"Batch", VStr("b1")>>>>)}

InitBatch ==
    /\ fieldnames = Columns
    /\ config_data = PidRows \o ObrRows \o TherapyRows \o TotalsRows
    /\ construct = "ok" /\ segment_mappings = compiled(config_data)
    /\ json_data_list \in SeqsUpTo(BatchRecords, MaxBatch)
    /\ batch_pc = "loop" /\ results = <<>> /\ clock = 0
    /\ IdleNorm /\ IdlePath /\ IdleCall
    /\ IdleCalls
    /\ IdleSchedule
    /\ IdleStatus

ProcessRecord ==
    /\ batch_pc = "loop"
    /\ ~batch_finished(json_data_list, results)
    /\ \E times \in ClockReadings(clock, 5) :
          /\ results' = Append(results,
                 process_record(segment_mappings, Len(results) + 1,
                                json_data_list[Len(results) + 1], times))
          /\ clock' = times[5]
    /\ UNCHANGED <<scheduleVars, statusVars, callsVars, json_data_list, batch_pc, normVars, pathVars, compileVars,
                   callVars, segment_mappings>>

ReturnResults ==
    /\ batch_pc = "loop"
    /\ batch_finished(json_data_list, results)
    /\ batch_pc' = "returned"
    /\ UNCHANGED <<scheduleVars, statusVars, callsVars, json_data_list, results, normVars, pathVars, compileVars,
                   callVars, segment_mappings, clock>>

NextBatch == ProcessRecord \/ ReturnResults

SpecBatch == InitBatch /\ [][NextBatch]_vars

-----------------------------------------------------------------------------
(* Two generate_hl7 calls on one generator, their steps interleaved.       *)

\* the parent counter kept on the generator: a step of call i writes its
\* counter into the frames of the other calls too
frames_after_shared_counter(frames, i, c) ==
    [j \in DOMAIN frames |->
        IF j = i THEN c ELSE [frames[j] EXCEPT !.obr_ctr = c.obr_ctr]]

\* lines 274-297: hl7_segments, obr_counter and the normalized record are
\* locals of one call; a step of call i changes the frame of call i only
frames_after(frames, i, c) == [frames EXCEPT ![i] = c]

\* a record with a therapy list and totals, a record with totals only, and
\* a record whose BATCH is not a mapping
TherapyRecord ==
    VDict(GoodRecordHead
          \o <<<<"Therapy", VList(<<VInt(1), VInt(2)>>)>>,
               <<"Totals", VDict(<<<<"Volume", VInt(3000)>>>>)>>>>)

TotalsRecord ==
    VDict(GoodRecordHead \o <<<<"Totals", VDict(<<<<"Volume", VInt(3000)>>>>)>>>>)

\* the records of the two calls: equal records, different records, and a
\* call that raises next to one that returns
CallPairs ==
    {<<TherapyRecord, TherapyRecord>>,
     <<TherapyRecord, TotalsRecord>>,
     <<VDict(<<<<"Batch", VStr("b1")>>>>), TherapyRecord>>}

InitCalls ==
    /\ fieldnames = Columns
    /\ config_data = PidRows \o ObrRows \o TherapyRows \o TotalsRows
    /\ construct = "ok" /\ segment_mappings = compiled(config_data)
    /\ \E pair \in CallPairs :
          calls = <<new_call(pair[1]), new_call(pair[2])>>
    /\ called_at = <<None, None>>
    /\ clock = 0
    /\ IdleNorm /\ IdlePath /\ IdleCall /\ IdleBatch
    /\ IdleStatus
    /\ IdleSchedule

\* one step of call i; the call is entered at its first step
StepCall(i) ==
    /\ calls[i].pc \notin {"done", "raised"}
    /\ calls' = frames_after(calls, i,
                             call_step(segment_mappings, calls[i], clock))
    /\ called_at' = IF calls[i].pc = "start"
                    THEN [called_at EXCEPT ![i] = Some(clock)]
                    ELSE called_at
    /\ UNCHANGED <<scheduleVars, statusVars, normVars, pathVars, compileVars, callVars, batchVars,
                   segment_mappings, clock>>

TickCalls ==
    /\ \E i \in DOMAIN calls : calls[i].pc \notin {"done", "raised"}
    /\ clock < MaxCallsClock
    /\ clock' = clock + 1
    /\ UNCHANGED <<scheduleVars, statusVars, callsVars, normVars, pathVars, compileVars, callVars,
                   batchVars, segment_mappings>>

NextCalls == (\E i \in DOMAIN calls : StepCall(i)) \/ TickCalls

SpecCalls == InitCalls /\ [][NextCalls]_vars


-----------------------------------------------------------------------------
(* Properties of the key normalization (SpecNorm) and of the path lookup   *)
(* (SpecPath).                                                             *)

\* C5: the key compiled from an attribute name equals the key a record's
\* key of the same name is normalized to, whatever its casing, spacing or
\* hyphenation.
C5_SameNormalization ==
    (config_key # None /\ record_key # None) => config_key = record_key

\* C10: _get_field_value never raises: every lookup of a path in a
\* normalized tree returns a value or None.
C10_LookupIsTotal == resolved # None => resolved[1].ok

-----------------------------------------------------------------------------
(* Properties of the compiled configuration (SpecCompile).  The rows of a  *)
(* configuration carry distinct identifiers, so a compiled field names the *)
(* row it was read from.                                                   *)

RequiredColumns ==
    {"SEGMENT", "JSON_ATTRIBUTE", "IDENTIFIER", "DISPLAY_NAME", "DATA_TYPE"}

\* the configuration row a compiled field was read from
FieldRow(fc) ==
    CHOOSE i \in DOMAIN config_data : RowIdentifier(i) = fc.identifier

FiledInSegment(i, segment, key) ==
    /\ dict_has(segment_mappings.segments, segment)
    /\ dict_has(dict_at(segment_mappings.segments, segment), key)
    /\ dict_at(dict_at(segment_mappings.segments, segment), key).identifier
          = RowIdentifier(i)

FiledInGroup(i, group) ==
    /\ dict_has(segment_mappings.obr_sections, group)
    /\ \E j \in DOMAIN dict_at(segment_mappings.obr_sections, group) :
          dict_at(segment_mappings.obr_sections, group)[j].identifier
             = RowIdentifier(i)

\* how many places of the compiled configuration hold the i-th row
SegmentPlaces(i) ==
    UNION {{<<s, k>> : k \in {k \in DOMAIN segment_mappings.segments[s][2] :
                 segment_mappings.segments[s][2][k][2].identifier
                    = RowIdentifier(i)}} :
           s \in DOMAIN segment_mappings.segments}

GroupPlaces(i) ==
    UNION {{<<g, k>> : k \in {k \in DOMAIN segment_mappings.obr_sections[g][2] :
                 segment_mappings.obr_sections[g][2][k].identifier
                    = RowIdentifier(i)}} :
           g \in DOMAIN segment_mappings.obr_sections}

CompiledFields(i) ==
    {segment_mappings.segments[p[1]][2][p[2]][2] : p \in SegmentPlaces(i)}
    \cup {segment_mappings.obr_sections[p[1]][2][p[2]] : p \in GroupPlaces(i)}

BadSequence(row) ==
    \/ "SEQUENCE" \notin DOMAIN row
    \/ row["SEQUENCE"] = None
    \/ row["SEQUENCE"][1] = ""
    \/ ~parse_int(row["SEQUENCE"][1]).ok

\* C6: with every required column present, construction succeeds whatever
\* the rows' sequence values are, and a row whose sequence is missing,
\* empty or not an integer is compiled with sequence 999.
C6_BadSequenceDefaults ==
    (construct # "new" /\ RequiredColumns \subseteq fieldnames) =>
        /\ construct = "ok"
        /\ \A i \in DOMAIN config_data :
              BadSequence(config_data[i]) =>
                  \A fc \in CompiledFields(i) : fc.sequence = DefaultSequence

\* C7: construction from a schema that lacks a required column fails, for
\* every set of rows.
C7_MissingColumnFails ==
    (construct # "new" /\ ~(RequiredColumns \subseteq fieldnames)) =>
        construct # "ok"

SortedStable(fields) ==
    \A i, j \in DOMAIN fields :
        i < j => \/ fields[i].sequence < fields[j].sequence
                 \/ /\ fields[i].sequence = fields[j].sequence
                    /\ FieldRow(fields[i]) < FieldRow(fields[j])

\* C8: in a compiled configuration every segment's and every group's
\* field list is ascending by sequence, fields of equal sequence in the
\* order of their rows.
C8_SortedStable ==
    construct = "ok" =>
        /\ \A s \in DOMAIN segment_mappings.segments :
              SortedStable(dict_values(segment_mappings.segments[s][2]))
        /\ \A g \in DOMAIN segment_mappings.obr_sections :
              SortedStable(segment_mappings.obr_sections[g][2])

\* C9: every row is filed in exactly one place: under its group when it is
\* an OBX row with a child-group tag, and under its segment and normalized
\* attribute name otherwise.
C9_OneDestination ==
    construct = "ok" =>
        \A i \in DOMAIN config_data :
            LET row == config_data[i]
                segment == row["SEGMENT"][1]
                group == row_get(row, "CHILD_OBR")
                key == normalize_config_key(row["JSON_ATTRIBUTE"][1])
            IN  /\ Cardinality(SegmentPlaces(i)) + Cardinality(GroupPlaces(i)) = 1
                /\ IF segment = "OBX" /\ group # ""
                   THEN FiledInGroup(i, group)
                   ELSE FiledInSegment(i, segment, key)


-----------------------------------------------------------------------------
(* Properties of one generate_hl7 call (Spec).                             *)

\* the positions of the parent lines that carry an identifier
ParentLines(segments, identifier) ==
    {i \in DOMAIN segments :
        segments[i].tag = "OBR" /\ segments[i].identifier = identifier}

\* how many child lines directly follow the line at position i
ChildrenAfter(segments, i) ==
    LET stop == CHOOSE j \in (i + 1)..(Len(segments) + 1) :
                   /\ \A k \in (i + 1)..(j - 1) : segments[k].tag = "OBX"
                   /\ j = Len(segments) + 1 \/ segments[j].tag # "OBX"
    IN  stop - i - 1

\* a non-empty list of records
RecordSequence(v) ==
    IsList(v) /\ v[2] # <<>> /\ \A i \in DOMAIN v[2] : IsDict(v[2][i])

HasParentConfig(group) ==
    /\ dict_has(segment_mappings.segments, "OBR")
    /\ dict_has(dict_at(segment_mappings.segments, "OBR"), group)

\* C1: when a child field of a configured group resolves to a list of k
\* records, the returned message has k parent lines for that group, each
\* followed by no more child lines than the group has child fields.
C1_ParentLinePerRecord ==
    pc = "done" =>
        \A s \in DOMAIN segment_mappings.obr_sections :
            LET group == segment_mappings.obr_sections[s][1]
                fields == segment_mappings.obr_sections[s][2]
            IN  \A f \in DOMAIN fields :
                    LET v == child_field_value(group, normalized_data,
                                               fields[f].json_attribute)
                    IN  (HasParentConfig(group) /\ v.ok /\ RecordSequence(v.val))
                        => LET parents == ParentLines(hl7_segments,
                                   dict_at(dict_at(segment_mappings.segments,
                                                   "OBR"), group).identifier)
                           IN  /\ Cardinality(parents) = Len(v.val[2])
                               /\ \A p \in parents :
                                     ChildrenAfter(hl7_segments, p) <= Len(fields)

\* C2: the counters of the parent lines of a message strictly increase in
\* the order the lines are emitted, across groups too.
C2_ParentCountersIncrease ==
    \A i, j \in DOMAIN hl7_segments :
        (i < j /\ hl7_segments[i].tag = "OBR" /\ hl7_segments[j].tag = "OBR")
            => hl7_segments[i].set_id < hl7_segments[j].set_id

\* a finished message with the fixed parent line, the parent lines of two
\* configured groups and the child lines of two cycle records
C2_Witness ==
    /\ pc = "done"
    /\ Cardinality({i \in DOMAIN hl7_segments : hl7_segments[i].tag = "OBR"}) >= 3
    /\ \E i \in DOMAIN json_data[2] :
          /\ json_data[2][i][1] = "Therapy"
          /\ RecordSequence(json_data[2][i][2])
          /\ Len(json_data[2][i][2][2]) >= 2
    /\ \E i \in DOMAIN hl7_segments :
          hl7_segments[i].tag = "OBX" /\ hl7_segments[i].obr_set_id >= 3

\* the values of "now" a message carries
NowFields(segments) ==
    UNION {IF segments[i].tag = "MSH"
           THEN {segments[i].time, segments[i].control_id}
           ELSE IF segments[i].tag \in {"BHS", "ORC"}
                THEN {segments[i].time} ELSE {} : i \in DOMAIN segments}

\* C3: the BHS time, the two time fields of MSH and the ORC time of one
\* call are the same timestamp, also when the clock advances during the
\* call.
C3_TimeSampledOnce == Cardinality(NowFields(hl7_segments)) <= 1

-----------------------------------------------------------------------------
(* Properties of process_batch (SpecBatch).                                *)

\* the clock readings generate_hl7 put into a message
message_times(message) ==
    LET line(tag) == message[CHOOSE i \in DOMAIN message : message[i].tag = tag]
    IN  <<line("BHS").time, line("MSH").time, line("MSH").control_id,
          line("ORC").time>>

\* what encoding the k-th record alone gives, at the times the outcome
\* shows
EncodedAlone(k) ==
    generate_hl7(segment_mappings, json_data_list[k],
                 IF results[k].hl7_message = None THEN <<0, 0, 0, 0>>
                 ELSE message_times(results[k].hl7_message[1]))

\* C4: process_batch returns one outcome per record, in input order and
\* numbered from 1; an outcome is an error exactly when encoding its record
\* fails, and its status and message are those of encoding that record
\* alone, whatever the other records of the batch are.
C4_BatchOutcomes ==
    /\ batch_pc = "returned" => Len(results) = Len(json_data_list)
    /\ Len(results) <= Len(json_data_list)
    /\ \A k \in DOMAIN results :
          LET alone == EncodedAlone(k) IN
          /\ results[k].sequence = k
          /\ results[k].status = IF alone.ok THEN "success" ELSE "error"
          /\ alone.ok => /\ results[k].hl7_message = Some(alone.val)
                         /\ results[k].error = None
          /\ ~alone.ok => /\ results[k].hl7_message = None
                          /\ results[k].error = Some(alone.err)

\* a returned batch of three whose second record failed and whose first
\* and third succeeded
C4_Witness ==
    /\ batch_pc = "returned"
    /\ Len(results) = 3
    /\ results[1].status = "success"
    /\ results[2].status = "error"
    /\ results[3].status = "success"

\* the child lines of a message that carry the absence marker as their value
AbsentChildLines(segments) ==
    {i \in DOMAIN segments :
        segments[i].tag = "OBX" /\ IsNone(segments[i].value)}

\* C11: an attribute that is absent from the record (at the top level, in a
\* nested mapping, or in some records of a projected list) contributes no
\* child line and no identifier token to the returned message.
C11_AbsentValueSkipped ==
    pc = "done" =>
        /\ AbsentChildLines(hl7_segments) = {}
        /\ \A i \in DOMAIN hl7_segments :
              hl7_segments[i].tag = "PID" =>
                  \A f \in DOMAIN hl7_segments[i].fields :
                      hl7_segments[i].fields[f][1] = "id"
                          => ~IsNone(hl7_segments[i].fields[f][2])

\* a normalized record in which the attribute is absent or holds a mapping
MappingOrAbsent(data, key) ==
    ~dict_has(data[2], key) \/ IsDict(dict_at(data[2], key))

\* a record tree that differs from a complete record only by the attributes
\* it lacks: a mapping whose patient info and batch are mappings or absent
\* and whose therapy is absent or a list of cycle records
LacksOnlyAttributes(json) ==
    /\ IsDict(json)
    /\ LET data == normalize_json_data(json)
       IN  /\ MappingOrAbsent(data, "PATIENT_INFO")
           /\ MappingOrAbsent(data, "BATCH")
           /\ \/ ~dict_has(data[2], "THERAPY")
              \/ /\ RecordSequence(dict_at(data[2], "THERAPY"))
                 /\ \A i \in DOMAIN dict_at(data[2], "THERAPY")[2] :
                       MappingOrAbsent(dict_at(data[2], "THERAPY")[2][i],
                                       "CYCLEATTRIBUTES")

\* C12: for every compiled configuration and every record tree that only
\* lacks attributes, the empty record included, generate_hl7 returns a
\* message and does not raise.
C12_MissingAttributeNeverFails ==
    LacksOnlyAttributes(json_data) => pc # "raised"

\* the lines of a message that belong to a configured group: parent lines
\* other than the fixed one, and child lines other than the device-type line
GroupLines(segments) ==
    {i \in DOMAIN segments :
        \/ segments[i].tag = "OBR" /\ segments[i] # InitialObr
        \/ segments[i].tag = "OBX"
              /\ segments[i].identifier # DeviceTypeConfig.identifier}

\* C13: with a configuration that has no group rows, generate_hl7 succeeds
\* for every record that only lacks attributes, and the message has no
\* parent line and no child line of a configured group.
C13_NoGroupsStillSucceeds ==
    segment_mappings.obr_sections = <<>> =>
        /\ LacksOnlyAttributes(json_data) => pc # "raised"
        /\ GroupLines(hl7_segments) = {}

\* the tags of the lines of a message, in order
Tags(segments) == [i \in DOMAIN segments |-> segments[i].tag]

\* the child line of the fixed parent line that carries the device type
IsDeviceTypeLine(line) ==
    line.tag = "OBX" /\ line.identifier = DeviceTypeConfig.identifier
        /\ line.obr_set_id = 1

\* C14: a returned message starts with the lines BHS, MSH, PID, PV1, ORC,
\* the fixed parent line and the two fixed NTE lines, in this order; the
\* device-type child line comes next, exactly when the record has a device
\* type; then come parent and child lines of the configured groups only,
\* and the BTS line is the last line.
C14_LineOrder ==
    pc = "done" =>
        LET n == Len(hl7_segments)
            device == get_field_value(normalized_data,
                                      "PATIENT_INFO.DEVICE_TYPE").val
            first == IF Truthy(device) THEN 10 ELSE 9
        IN  /\ n >= first
            /\ SubSeq(Tags(hl7_segments), 1, 8)
                  = <<"BHS", "MSH", "PID", "PV1", "ORC", "OBR", "NTE", "NTE">>
            /\ hl7_segments[6] = InitialObr
            /\ Truthy(device) => IsDeviceTypeLine(hl7_segments[9])
            /\ \A i \in first..(n - 1) :
                  /\ hl7_segments[i].tag \in {"OBR", "OBX"}
                  /\ ~IsDeviceTypeLine(hl7_segments[i])
            /\ hl7_segments[n] = BtsLine

\* a returned message with the device-type line, lines of a configured
\* group after it, and the trailer
C14_Witness ==
    /\ pc = "done"
    /\ Len(hl7_segments) >= 12
    /\ IsDeviceTypeLine(hl7_segments[9])
    /\ hl7_segments[10].tag = "OBR" /\ hl7_segments[11].tag = "OBX"
    /\ hl7_segments[Len(hl7_segments)].tag = "BTS"

\* C14 as stated: the fixed parent line comes with its device-type field,
\* and the two NTE lines follow them.
C14_DeviceTypeBeforeNotes ==
    pc = "done" =>
        /\ Len(hl7_segments) >= 9
        /\ hl7_segments[6] = InitialObr
        /\ IsDeviceTypeLine(hl7_segments[7])
        /\ hl7_segments[8].tag = "NTE" /\ hl7_segments[9].tag = "NTE"

\* the rows in which a child-group tag occurs for the first time
FirstTagRows ==
    {i \in DOMAIN config_data :
        /\ CellTruthy(config_data[i]["CHILD_OBR"])
        /\ \A j \in 1..(i - 1) :
              config_data[j]["CHILD_OBR"] # config_data[i]["CHILD_OBR"]}

\* the identifier of the parent row configured for a group tag
ParentIdentifier(group) ==
    dict_at(dict_at(segment_mappings.segments, "OBR"), group).identifier

\* the positions of the parent lines of the configured groups
GroupParentLines(segments) ==
    {i \in DOMAIN segments :
        segments[i].tag = "OBR" /\ segments[i] # InitialObr}

\* C15: every distinct child-group tag of the configuration has a parent
\* line in the returned message, and the parent lines of two groups stand
\* in the order in which the tags first occur in the configuration rows.
C15_EveryGroupHasParentLine ==
    pc = "done" =>
        /\ Cardinality(GroupParentLines(hl7_segments))
              = Cardinality(FirstTagRows)
        /\ \A i, j \in FirstTagRows :
              LET g == config_data[i]["CHILD_OBR"][1]
                  h == config_data[j]["CHILD_OBR"][1]
              IN  (i < j /\ HasParentConfig(g) /\ HasParentConfig(h))
                     => \A p \in ParentLines(hl7_segments, ParentIdentifier(g)),
                           q \in ParentLines(hl7_segments, ParentIdentifier(h)) :
                           p < q

\* the fields PID-2.. of the PID line of a message
PidFields(segments) ==
    segments[CHOOSE i \in DOMAIN segments : segments[i].tag = "PID"].fields

\* the field configurations filed under PID
PidConfigs == dict_values(dict_at(segment_mappings.segments, "PID"))

\* the authority name of an identifier-type attribute, "" for other attributes
AuthorityName(attr) ==
    IF attr = "CLINIC_PATIENT_ID" THEN "Clinic_Patient_ID"
    ELSE IF attr \in {"ERP_PATIENT_ID", "BAXTER_PATIENT_ID"}
         THEN "Baxter_Patient_ID" ELSE ""

\* the value of a PID attribute in the record's patient info
PatientValue(attr) ==
    get_field_value(normalized_data, "PATIENT_INFO." \o attr).val

\* the positions in the PID line of the token of a field configuration
TokenPlaces(segments, field_config) ==
    {k \in DOMAIN PidFields(segments) :
        PidFields(segments)[k]
            = <<"id", PatientValue(field_config.json_attribute),
                AuthorityName(field_config.json_attribute)>>}

\* C16: for every identifier-type field configured under PID whose value is
\* present in the patient info, the PID line of the returned message has the
\* token value^^^AuthorityName, and the tokens stand in ascending order of
\* the configured sequence numbers.
C16_IdentifierTokens ==
    pc = "done" =>
        \A f, g \in DOMAIN PidConfigs :
            (/\ AuthorityName(PidConfigs[f].json_attribute) # ""
             /\ ~IsNone(PatientValue(PidConfigs[f].json_attribute)))
            => /\ TokenPlaces(hl7_segments, PidConfigs[f]) # {}
               /\ (/\ AuthorityName(PidConfigs[g].json_attribute) # ""
                   /\ ~IsNone(PatientValue(PidConfigs[g].json_attribute))
                   /\ PidConfigs[f].sequence < PidConfigs[g].sequence)
                  => \A k \in TokenPlaces(hl7_segments, PidConfigs[f]),
                        m \in TokenPlaces(hl7_segments, PidConfigs[g]) : k < m

\* C17: the PID line of a returned message has its identifier tokens, padded
\* with empty fields up to the minimum field count, followed by exactly one
\* name field last^first^middle in which an absent component is the empty
\* string, whichever of the three names are present.
C17_PaddingAndName ==
    pc = "done" =>
        LET fields == PidFields(hl7_segments)
            ids == {k \in DOMAIN fields : fields[k][1] = "id"}
            Component(attr) ==
                IF IsNone(PatientValue(attr)) THEN VStr("")
                ELSE PatientValue(attr)
        IN  /\ Len(fields) = (IF Cardinality(ids) > PidMinFields
                              THEN Cardinality(ids) ELSE PidMinFields) + 1
            /\ \A k \in 1..(Len(fields) - 1) :
                  IF k <= Cardinality(ids) THEN fields[k][1] = "id"
                  ELSE fields[k] = EmptyField
            /\ fields[Len(fields)]
                  = <<"name", Component("LAST_NAME"), Component("FIRST_NAME"),
                      Component("MIDDLE_NAME")>>

\* the line of a message that has the tag
LineOf(segments, tag) ==
    segments[CHOOSE i \in DOMAIN segments : segments[i].tag = tag]

\* C18: the PV1 line and the ORC line of a returned message carry the value
\* their source path resolves to whenever it resolves to a value, and the
\* fallback (XYZClinic, the empty string) exactly when it resolves to absence.
C18_FallbackOnlyWhenAbsent ==
    pc = "done" =>
        /\ LineOf(hl7_segments, "PV1").clinic_name
              = (IF IsNone(PatientValue("CLINIC_NAME")) THEN VStr("XYZClinic")
                 ELSE PatientValue("CLINIC_NAME"))
        /\ LineOf(hl7_segments, "ORC").treatment_id
              = (IF IsNone(PatientValue("TREATMENT_ID")) THEN VStr("")
                 ELSE PatientValue("TREATMENT_ID"))

-----------------------------------------------------------------------------
(* Properties of two calls on one generator (SpecCalls).                   *)

\* C19: two generate_hl7 calls on the same compiled configuration, with
\* equal records and entered at the same current time, return the same
\* message, whatever ran before or between their steps.
C19_SameInputsSameMessage ==
    (/\ calls # <<>>
     /\ calls[1].pc = "done" /\ calls[2].pc = "done"
     /\ calls[1].json = calls[2].json
     /\ called_at[1] = called_at[2])
        => calls[1].segments = calls[2].segments

\* what the call of a finished frame gives when it runs alone, at the clock
\* readings its message shows
RunAlone(c) ==
    generate_hl7(segment_mappings, c.json,
                 IF c.pc = "done" THEN message_times(c.segments)
                 ELSE <<0, 0, 0, 0>>)

\* C20: no step of a call writes the compiled mappings, and each of two
\* calls whose steps interleave on one generator ends with the message, or
\* the exception, it ends with when it runs alone.
C20_InterleavedAsAlone ==
    [][/\ segment_mappings' = segment_mappings
       /\ \A i \in DOMAIN calls :
             (calls[i].pc \notin {"done", "raised"}
                 /\ calls'[i].pc \in {"done", "raised"})
             => RunAlone(calls'[i]) = call_result(calls'[i])]_vars

\* call 1 has returned a message with the parent lines of two groups; it
\* read the clock for its first line after call 2 did, and call 2 is still
\* between its groups
C20_Witness ==
    /\ calls # <<>>
    /\ calls[1].pc = "done" /\ calls[2].pc = "sections"
    /\ calls[1].segments[1].time > calls[2].segments[1].time
    /\ Cardinality(GroupParentLines(calls[1].segments)) >= 2
    /\ calls[2].idx = 2
    /\ Cardinality(GroupParentLines(calls[2].segments)) >= 1

-----------------------------------------------------------------------------
(* Whole lines and whole messages (Spec).                                  *)

\* the fields a fully assembled line of each kind has
LineFields(tag) ==
    CASE tag = "BHS" -> {"tag", "time", "batch_type", "batch_id"}
      [] tag = "MSH" -> {"tag", "time", "control_id", "version"}
      [] tag = "PID" -> {"tag", "set_id", "fields"}
      [] tag = "PV1" -> {"tag", "set_id", "clinic_name"}
      [] tag = "ORC" -> {"tag", "treatment_id", "time"}
      [] tag = "OBR" -> {"tag", "set_id", "identifier", "display_name",
                         "timestamp_suffix"}
      [] tag = "NTE" -> {"tag", "set_id", "label", "value"}
      [] tag = "OBX" -> {"tag", "set_id", "data_type", "identifier",
                         "display_name", "obr_set_id", "value", "unit"}
      [] tag = "BTS" -> {"tag", "set_id", "text", "count"}
      [] OTHER -> {}

WholeLines(segments) ==
    \A i \in DOMAIN segments :
        DOMAIN segments[i] = LineFields(segments[i].tag)

\* C21: every line of the message under construction is a fully assembled
\* line; a call that fails returns no message text, so its batch outcome is
\* an error without a message, and a returned message is whole, from its
\* first line to the trailer.
C21_NoPartialLine ==
    /\ WholeLines(hl7_segments)
    /\ pc \in {"done", "raised"} =>
          LET r == call_result(Call)
              o == outcome(1, r, clock)
          IN  /\ pc = "raised" => /\ ~r.ok
                                  /\ o.status = "error"
                                  /\ o.hl7_message = None
              /\ r.ok => /\ WholeLines(r.val)
                         /\ r.val # <<>>
                         /\ r.val[1].tag = "BHS"
                         /\ r.val[Len(r.val)] = BtsLine
                         /\ o.hl7_message = Some(r.val)

\* a call that failed while a group was rendered, after whole lines had been
\* appended to the message under construction
C21_Witness ==
    /\ pc = "raised"
    /\ Len(hl7_segments) >= 8
    /\ hl7_segments[Len(hl7_segments)].tag # "BTS"

-----------------------------------------------------------------------------
(* Normalization applied twice (SpecPath).                                 *)

\* the values directly below a value
Children(v) ==
    IF IsDict(v) THEN dict_values(v[2]) ELSE IF IsList(v) THEN v[2] ELSE <<>>

\* every key of every mapping of a tree
RECURSIVE KeysOf(_)
KeysOf(v) ==
    (IF IsDict(v) THEN {v[2][i][1] : i \in DOMAIN v[2]} ELSE {})
    \cup UNION {KeysOf(Children(v)[i]) : i \in DOMAIN Children(v)}

\* C22: normalization is idempotent: a key of a normalized record tree is
\* its own normalization, and _normalize_json_data applied to a normalized
\* tree returns an equal tree.
C22_NormalizationIdempotent ==
    normalized_tree # None =>
        /\ \A k \in KeysOf(normalized_tree[1]) : normalize_record_key(k) = k
        /\ normalize_json_data(normalized_tree[1]) = normalized_tree[1]

\* a normalized tree whose keys had a space and a hyphen, two of them
\* normalized to the same key
C22_Witness ==
    /\ normalized_tree # None
    /\ "a b" \in KeysOf(tree) /\ "a-b" \in KeysOf(tree)
    /\ KeysOf(normalized_tree[1]) = {"L", "A_B"}

-----------------------------------------------------------------------------
(* JobStatusGenerator (json_validation.py).  A statement text is modelled   *)
(* by the key of its template and, in text order, the phrase that precedes  *)
(* each placeholder with the device name that fills it.                     *)

DeviceStatus == {"SUCCESS", "FAILURE", "PARTIAL_SUCCESS"}

\* self.statements: for each key the phrases of the text that end in a
\* placeholder, with the placeholder's name
statements ==
    [key \in {"STATEMENT_SUCCESS", "STATEMENT_FAILED",
              "STATEMENT_PARTIAL_SUCCESS", "STATEMENT_REPROCESS_SUCCESS",
              "STATEMENT_REPROCESS_FAILED",
              "STATEMENT_REPROCESS_PARTIAL_SUCCESS"} |-> <<>>]
    @@ ("STATEMENT_SUCCESS_AND_FAILURE" :>
            <<<<"failed for", "failure_device">>,
              <<"completed successfully for", "success_device">>>>)
    @@ ("STATEMENT_FAILURE_AND_PARTIAL_SUCCESS" :>
            <<<<"partial success for", "partial_device">>,
              <<"completed successfully for", "failure_device">>>>)
    @@ ("STATEMENT_SUCCESS_AND_PARTIAL_SUCCESS" :>
            <<<<"partial success for", "partial_device">>,
              <<"completed successfully for", "success_device">>>>)
    @@ ("STATEMENT_REPROCESS_SUCCESS_AND_FAILURE" :>
            <<<<"did not fully resolve issues - for", "failure_device">>>>)
    @@ ("STATEMENT_REPROCESS_FAILURE_AND_PARTIAL_SUCCESS" :>
            <<<<"did not fully resolve issues - for", "failed_device">>>>)
    @@ ("STATEMENT_REPROCESS_SUCCESS_AND_PARTIAL_SUCCESS" :>
            <<<<"did not fully resolve issues - for", "success_device">>>>)

\* self.statements[key].format(**kwargs)
format(key, kwargs) ==
    [key |-> key,
     devices |-> [i \in DOMAIN statements[key] |->
                     <<statements[key][i][1], kwargs[statements[key][i][2]]>>]]

\* a statement returned as a literal, without a template
literal(text) == [key |-> text, devices |-> <<>>]

\* _validate_status: does not raise
validate_status(status) == status \in DeviceStatus

\* if reprocess_amia: self._validate_status(...)
validate_reprocess(reprocess) ==
    CellTruthy(reprocess) => validate_status(reprocess[1])

generate_initial_statement(amia, claria) ==
    CASE amia = "SUCCESS" /\ claria = "SUCCESS" -> format("STATEMENT_SUCCESS", <<>>)
      [] amia = "FAILURE" /\ claria = "FAILURE" -> format("STATEMENT_FAILED", <<>>)
      [] amia = "PARTIAL_SUCCESS" /\ claria = "PARTIAL_SUCCESS" ->
            format("STATEMENT_PARTIAL_SUCCESS", <<>>)
      [] amia = "SUCCESS" /\ claria = "FAILURE" ->
            format("STATEMENT_SUCCESS_AND_FAILURE",
                   [failure_device |-> "CLARIA", success_device |-> "AMIA"])
      [] amia = "FAILURE" /\ claria = "PARTIAL_SUCCESS" ->
            format("STATEMENT_FAILURE_AND_PARTIAL_SUCCESS",
                   [partial_device |-> "CLARIA", failure_device |-> "AMIA"])
      [] amia = "SUCCESS" /\ claria = "PARTIAL_SUCCESS" ->
            format("STATEMENT_SUCCESS_AND_PARTIAL_SUCCESS",
                   [partial_device |-> "CLARIA", success_device |-> "AMIA"])
      [] amia = "FAILURE" /\ claria = "SUCCESS" ->
            format("STATEMENT_SUCCESS_AND_FAILURE",
                   [failure_device |-> "AMIA", success_device |-> "CLARIA"])
      [] amia = "PARTIAL_SUCCESS" /\ claria = "FAILURE" ->
            format("STATEMENT_FAILURE_AND_PARTIAL_SUCCESS",
                   [partial_device |-> "AMIA", failure_device |-> "CLARIA"])
      [] amia = "PARTIAL_SUCCESS" /\ claria = "SUCCESS" ->
            format("STATEMENT_SUCCESS_AND_PARTIAL_SUCCESS",
                   [partial_device |-> "AMIA", success_device |-> "CLARIA"])
      [] OTHER -> literal("Unknown status combination")

\* reprocess_amia or amia_status
reprocess_or(reprocess, status) ==
    IF CellTruthy(reprocess) THEN reprocess[1] ELSE status

\* lines 140-183, amia and claria being the statuses after lines 136-137
reprocess_statement(amia, claria) ==
    CASE amia = "SUCCESS" /\ claria = "SUCCESS" ->
            format("STATEMENT_REPROCESS_SUCCESS", <<>>)
      [] amia = "FAILURE" /\ claria = "FAILURE" ->
            format("STATEMENT_REPROCESS_FAILED", <<>>)
      [] amia = "PARTIAL_SUCCESS" /\ claria = "PARTIAL_SUCCESS" ->
            format("STATEMENT_REPROCESS_PARTIAL_SUCCESS", <<>>)
      [] {amia, claria} = {"SUCCESS", "FAILURE"} ->
            format("STATEMENT_REPROCESS_SUCCESS_AND_FAILURE",
                   [failure_device |-> IF amia = "FAILURE" THEN "AMIA" ELSE "CLARIA"])
      [] {amia, claria} = {"FAILURE", "PARTIAL_SUCCESS"} ->
            format("STATEMENT_REPROCESS_FAILURE_AND_PARTIAL_SUCCESS",
                   [failed_device |-> IF amia = "FAILURE" THEN "AMIA" ELSE "CLARIA"])
      [] {amia, claria} = {"SUCCESS", "PARTIAL_SUCCESS"} ->
            format("STATEMENT_REPROCESS_SUCCESS_AND_PARTIAL_SUCCESS",
                   [success_device |-> IF amia = "SUCCESS" THEN "AMIA" ELSE "CLARIA"])
      [] OTHER -> literal("Unknown reprocess status combination")

generate_reprocess_statement(amia, claria, rep_amia, rep_claria) ==
    reprocess_statement(reprocess_or(rep_amia, amia),
                        reprocess_or(rep_claria, claria))

generate_statement(amia, claria, rep_amia, rep_claria) ==
    IF ~validate_status(amia) \/ ~validate_status(claria)
       \/ ~validate_reprocess(rep_amia) \/ ~validate_reprocess(rep_claria)
    THEN Raise("ValueError")
    ELSE IF rep_amia # None \/ rep_claria # None
    THEN Ok(generate_reprocess_statement(amia, claria, rep_amia, rep_claria))
    ELSE Ok(generate_initial_statement(amia, claria))

-----------------------------------------------------------------------------
(* SpecStatus: one generate_statement call.                                *)

\* the valid statuses, a word that is no status, and the empty string
StatusArguments == DeviceStatus \cup {"DONE", ""}

InitStatus ==
    /\ amia_status \in StatusArguments /\ claria_status \in StatusArguments
    /\ reprocess_amia \in {None} \cup {Some(s) : s \in StatusArguments}
    /\ reprocess_claria \in {None} \cup {Some(s) : s \in StatusArguments}
    /\ statement = None
    /\ IdleNorm /\ IdlePath /\ IdleCompile /\ IdleCall /\ IdleBatch
    /\ IdleCalls
    /\ IdleSchedule
    /\ segment_mappings = EmptyMappings /\ clock = 0

GenerateStatement ==
    /\ statement = None
    /\ statement' = Some(generate_statement(amia_status, claria_status,
                                            reprocess_amia, reprocess_claria))
    /\ UNCHANGED <<scheduleVars, amia_status, claria_status, reprocess_amia, reprocess_claria,
                   normVars, pathVars, compileVars, callVars, batchVars,
                   callsVars, segment_mappings, clock>>

NextStatus == GenerateStatement

SpecStatus == InitStatus /\ [][NextStatus]_vars

-----------------------------------------------------------------------------
(* Properties of generate_statement (SpecStatus).                          *)

ValidReprocess(reprocess) == reprocess = None \/ reprocess[1] \in DeviceStatus

\* the name of the statement for a pair of statuses
PairName(a, b) ==
    CASE {a, b} = {"SUCCESS"} -> "SUCCESS"
      [] {a, b} = {"FAILURE"} -> "FAILED"
      [] {a, b} = {"PARTIAL_SUCCESS"} -> "PARTIAL_SUCCESS"
      [] {a, b} = {"SUCCESS", "FAILURE"} -> "SUCCESS_AND_FAILURE"
      [] {a, b} = {"FAILURE", "PARTIAL_SUCCESS"} -> "FAILURE_AND_PARTIAL_SUCCESS"
      [] {a, b} = {"SUCCESS", "PARTIAL_SUCCESS"} -> "SUCCESS_AND_PARTIAL_SUCCESS"
      [] OTHER -> "Unknown"

\* the status a phrase of an initial-execution statement gives to the device
\* it names
PhraseStatus(phrase) ==
    CASE phrase = "failed for" -> "FAILURE"
      [] phrase = "partial success for" -> "PARTIAL_SUCCESS"
      [] phrase = "completed successfully for" -> "SUCCESS"
      [] OTHER -> ""

StatusOfDevice(device) == IF device = "AMIA" THEN amia_status ELSE claria_status

\* C23: for the 9 pairs of valid statuses generate_statement returns, with
\* no reprocess status, the initial-execution statement of the pair, in
\* which every device is named with the status it has, and with a reprocess
\* status the REPROCESS statement of the pair of effective statuses (the
\* reprocess status where given, else the original one); it never returns
\* an Unknown text.
C23_StatementOfPair ==
    (/\ statement # None
     /\ amia_status \in DeviceStatus /\ claria_status \in DeviceStatus
     /\ ValidReprocess(reprocess_amia) /\ ValidReprocess(reprocess_claria))
    => /\ statement[1].ok
       /\ IF reprocess_amia = None /\ reprocess_claria = None
          THEN /\ statement[1].val.key
                     = "STATEMENT_" \o PairName(amia_status, claria_status)
               /\ \A i \in DOMAIN statement[1].val.devices :
                     PhraseStatus(statement[1].val.devices[i][1])
                        = StatusOfDevice(statement[1].val.devices[i][2])
          ELSE statement[1].val.key
                  = "STATEMENT_REPROCESS_"
                    \o PairName(IF reprocess_amia = None THEN amia_status
                                ELSE reprocess_amia[1],
                                IF reprocess_claria = None THEN claria_status
                                ELSE reprocess_claria[1])

\* C24: generate_statement raises ValueError, and returns no statement,
\* whenever amia_status, claria_status or a reprocess status that was
\* supplied (is not None) is not one of SUCCESS, FAILURE, PARTIAL_SUCCESS.
C24_InvalidStatusRaises ==
    (/\ statement # None
     /\ \/ amia_status \notin DeviceStatus
        \/ claria_status \notin DeviceStatus
        \/ ~ValidReprocess(reprocess_amia)
        \/ ~ValidReprocess(reprocess_claria))
    => statement[1] = Raise("ValueError")

-----------------------------------------------------------------------------
(* schedule.py: schedule_monthly and schedule_quarterly.  A datetime is a  *)
(* record of year, month, day, hour and minute; a timedelta is a number of *)
(* minutes; time_of_day is None or Some(<<hour, minute>>).  The generator  *)
(* runs from one yield to the next in one step.  Line 210 of the file      *)
(* lacks its closing parenthesis; it is read as                            *)
(* (sorted(quarter_months).index(quarter_start.month) + 1).                *)

IsLeap(year) == year % 4 = 0 /\ (year % 100 # 0 \/ year % 400 = 0)

DaysInMonth(year, month) ==
    IF month = 2 THEN (IF IsLeap(year) THEN 29 ELSE 28)
    ELSE IF month \in {4, 6, 9, 11} THEN 30 ELSE 31

\* the order of datetimes (<, <=, >=, min)
Stamp(date) ==
    (((date.year * 12 + date.month) * 31 + date.day) * 24 + date.hour) * 60
    + date.minute

\* datetime.replace(year=, month=, day=): ValueError for a date that does
\* not exist
replace(date, year, month, day) ==
    IF month \in 1..12 /\ day \in 1..DaysInMonth(year, month)
    THEN Ok([date EXCEPT !.year = year, !.month = month, !.day = day])
    ELSE Raise("ValueError")

\* datetime.replace(hour=, minute=[, second=0, microsecond=0]) when
\* time_of_day is given
at_time_of_day(date, time_of_day) ==
    IF time_of_day = None THEN date
    ELSE [date EXCEPT !.hour = time_of_day[1][1], !.minute = time_of_day[1][2]]

\* the proleptic Gregorian ordinal of a date (datetime arithmetic is done on
\* ordinals)
days_before_year(year) ==
    (year - 1) * 365 + ((year - 1) \div 4) - ((year - 1) \div 100)
    + ((year - 1) \div 400)

days_before_month(year, month) ==
    <<0, 31, 59, 90, 120, 151, 181, 212, 243, 273, 304, 334>>[month]
    + (IF month > 2 /\ IsLeap(year) THEN 1 ELSE 0)

toordinal(date) ==
    days_before_year(date.year) + days_before_month(date.year, date.month)
    + date.day

fromordinal(date, ordinal) ==
    LET year == CHOOSE y \in (ordinal \div 366)..((ordinal \div 365) + 1) :
                    /\ days_before_year(y) < ordinal
                    /\ ordinal <= days_before_year(y + 1)
        month == CHOOSE m \in 1..12 :
                    /\ days_before_month(year, m) < ordinal - days_before_year(year)
                    /\ ordinal - days_before_year(year)
                          <= days_before_month(year, m) + DaysInMonth(year, m)
    IN  [date EXCEPT !.year = year, !.month = month,
                     !.day = ordinal - days_before_year(year)
                             - days_before_month(year, month)]

\* date + timedelta(days=days)
plus_days(date, days) == fromordinal(date, toordinal(date) + days)

\* date + task_duration
plus_duration(date, minutes) ==
    plus_days([date EXCEPT !.hour = ((date.hour * 60 + date.minute + minutes)
                                        % 1440) \div 60,
                           !.minute = (date.minute + minutes) % 60],
              (date.hour * 60 + date.minute + minutes) \div 1440)

\* "Move to next month": the first day of the month after date's
first_of_next_month(date) ==
    replace(date, date.year + (IF (date.month % 12) + 1 = 1 THEN 1 ELSE 0),
            (date.month % 12) + 1, 1).val

\* schedule_monthly, the loop that finds the first occurrence: a month that
\* lacks day_of_month is passed over
RECURSIVE monthly_first(_, _)
monthly_first(date, call) ==
    IF /\ replace(date, date.year, date.month, call.day).ok
       /\ Stamp(at_time_of_day(
                  replace(date, date.year, date.month, call.day).val,
                  call.time_of_day)) >= Stamp(call.start_date)
    THEN at_time_of_day(replace(date, date.year, date.month, call.day).val,
                        call.time_of_day)
    ELSE monthly_first(first_of_next_month(date), call)

\* schedule_monthly, "Move to next month" after a yield: the same day of the
\* next month, or that month's last day
monthly_advance(date, call) ==
    LET next_month == (date.month % 12) + 1
        next_year == date.year + (IF next_month = 1 THEN 1 ELSE 0)
        same_day == replace(date, next_year, next_month, call.day)
        past == plus_days(replace(date, next_year, next_month, 1).val, 32)
    IN  IF same_day.ok
        THEN at_time_of_day(same_day.val, call.time_of_day)
        ELSE at_time_of_day(
                 plus_days(replace(past, past.year, past.month, 1).val, -1),
                 call.time_of_day)

\* quarter_months, with its default value
quarter_months == <<1, 4, 7, 10>>

\* sorted(quarter_months).index(month), from 0; 4 stands for ValueError
index(month) ==
    IF \E i \in 1..4 : quarter_months[i] = month
    THEN (CHOOSE i \in 1..4 : quarter_months[i] = month) - 1
    ELSE 4

\* for month in sorted(quarter_months): if current.month <= month: ... break
first_quarter_month_from(month) ==
    IF \E i \in 1..4 : month <= quarter_months[i]
    THEN quarter_months[CHOOSE i \in 1..4 :
                           /\ month <= quarter_months[i]
                           /\ \A j \in 1..(i - 1) : month > quarter_months[j]]
    ELSE 0

\* schedule_quarterly, "Find current quarter" (lines 194-199)
quarter_start_of(date) ==
    IF first_quarter_month_from(date.month) # 0
    THEN replace(date, date.year, first_quarter_month_from(date.month), 1).val
    ELSE replace(date, date.year + 1, quarter_months[1], 1).val

\* schedule_quarterly, the loop that finds the first occurrence
RECURSIVE quarterly_first(_, _)
quarterly_first(date, call) ==
    LET quarter_start == quarter_start_of(date)
        candidate == at_time_of_day(plus_days(quarter_start, call.day - 1),
                                    call.time_of_day)
        next_quarter_index == index(quarter_start.month) + 1
        next_year == IF next_quarter_index >= 4 THEN quarter_start.year + 1
                     ELSE quarter_start.year
        next_month == quarter_months[IF next_quarter_index >= 4 THEN 1
                                     ELSE next_quarter_index + 1]
    IN  IF /\ Stamp(candidate) >= Stamp(call.start_date)
           /\ candidate.month \in {quarter_months[1], quarter_months[1] + 1,
                                   quarter_months[1] + 2}
        THEN candidate
        ELSE quarterly_first(replace(date, next_year, next_month, 1).val, call)

\* schedule_quarterly, "Move to next quarter" after a yield (lines 222-240)
quarterly_advance(date, call) ==
    LET current_quarter_month ==
            IF first_quarter_month_from(date.month) # 0
            THEN first_quarter_month_from(date.month) ELSE date.month
        next_quarter_index == (index(current_quarter_month) + 1) % 4
        next_year == date.year + (IF next_quarter_index = 0 THEN 1 ELSE 0)
        next_month == quarter_months[next_quarter_index + 1]
        quarter_start == replace(date, next_year, next_month, 1).val
        candidate == at_time_of_day(plus_days(quarter_start, call.day - 1),
                                    call.time_of_day)
        following == replace(quarter_start, quarter_start.year,
                             next_month + 3, 1)
    IN  IF index(current_quarter_month) = 4 \/ ~following.ok
        THEN Raise("ValueError")
        ELSE LET next_quarter_end == plus_days(following.val, -1)
             IN  Ok(IF Stamp(next_quarter_end) < Stamp(candidate)
                    THEN next_quarter_end ELSE candidate)

\* --- specification SpecSchedule: one run of a schedule generator ---------
Date(year, month, day, hour) ==
    [year |-> year, month |-> month, day |-> day, hour |-> hour, minute |-> 0]

StartDates == {Date(2023, 1, 1, 0), Date(2023, 1, 31, 10),
               Date(2023, 2, 10, 0), Date(2023, 11, 15, 0)}
EndDates == {Date(2023, 5, 1, 0), Date(2024, 1, 1, 0), Date(2024, 3, 31, 12)}
DaysOfMonth == {1, 15, 29, 30, 31}
DaysOfQuarter == {1, 50, 91}
TaskDurations == {60, 1500}
TimesOfDay == {None, Some(<<9, 0>>)}

InitSchedule ==
    /\ \E function \in {"schedule_monthly", "schedule_quarterly"},
          start_date \in StartDates, end_date \in EndDates,
          task_duration \in TaskDurations, time_of_day \in TimesOfDay :
          \E day \in IF function = "schedule_monthly" THEN DaysOfMonth
                     ELSE DaysOfQuarter :
             schedule_call = [function |-> function, start_date |-> start_date,
                              end_date |-> end_date, day |-> day,
                              task_duration |-> task_duration,
                              time_of_day |-> time_of_day]
    /\ schedule_pc = "start" /\ schedule_current = NoDate
    /\ occurrences = <<>>
    /\ IdleNorm /\ IdlePath /\ IdleCompile /\ IdleCall /\ IdleBatch
    /\ IdleCalls /\ IdleStatus
    /\ segment_mappings = EmptyMappings /\ clock = 0

\* while current <= end_date: yield (current, current + task_duration)
\* (or the end of the generator)
LoopFrom(date) ==
    /\ schedule_current' = date
    /\ IF Stamp(date) <= Stamp(schedule_call.end_date)
       THEN /\ occurrences' = Append(occurrences,
                  <<date, plus_duration(date, schedule_call.task_duration)>>)
            /\ schedule_pc' = "yielded"
       ELSE /\ occurrences' = occurrences
            /\ schedule_pc' = "done"

OtherVars == <<normVars, pathVars, compileVars, callVars, batchVars,
               callsVars, statusVars, segment_mappings, clock>>

\* the first next() of schedule_monthly
MonthlyStart ==
    /\ schedule_call.function = "schedule_monthly" /\ schedule_pc = "start"
    /\ LoopFrom(monthly_first(
           replace(schedule_call.start_date, schedule_call.start_date.year,
                   schedule_call.start_date.month, 1).val, schedule_call))
    /\ UNCHANGED <<schedule_call, OtherVars>>

\* a later next() of schedule_monthly
MonthlyResume ==
    /\ schedule_call.function = "schedule_monthly" /\ schedule_pc = "yielded"
    /\ LoopFrom(monthly_advance(schedule_current, schedule_call))
    /\ UNCHANGED <<schedule_call, OtherVars>>

\* the first next() of schedule_quarterly
QuarterlyStart ==
    /\ schedule_call.function = "schedule_quarterly" /\ schedule_pc = "start"
    /\ LoopFrom(quarterly_first(
           [replace(schedule_call.start_date, schedule_call.start_date.year,
                    schedule_call.start_date.month, 1).val
               EXCEPT !.hour = 0, !.minute = 0], schedule_call))
    /\ UNCHANGED <<schedule_call, OtherVars>>

\* a later next() of schedule_quarterly
QuarterlyResume ==
    /\ schedule_call.function = "schedule_quarterly"
    /\ schedule_pc = "yielded"
    /\ IF quarterly_advance(schedule_current, schedule_call).ok
       THEN LoopFrom(quarterly_advance(schedule_current, schedule_call).val)
       ELSE /\ schedule_pc' = "raised"
            /\ UNCHANGED <<schedule_current, occurrences>>
    /\ UNCHANGED <<schedule_call, OtherVars>>

NextSchedule ==
    \/ MonthlyStart
    \/ MonthlyResume
    \/ QuarterlyStart
    \/ QuarterlyResume

SpecSchedule == InitSchedule /\ [][NextSchedule]_vars

-----------------------------------------------------------------------------
(* Properties of the schedule generators (SpecSchedule).                   *)

Finished(function) ==
    schedule_call.function = function /\ schedule_pc \in {"done", "raised"}

InRange(date) ==
    /\ Stamp(schedule_call.start_date) <= Stamp(date)
    /\ Stamp(date) <= Stamp(schedule_call.end_date)

\* the starts are increasing, lie in [start_date, end_date], and every end
\* is its start plus task_duration
WellFormedOccurrences ==
    /\ \A i \in DOMAIN occurrences :
          /\ InRange(occurrences[i][1])
          /\ occurrences[i][2]
                = plus_duration(occurrences[i][1], schedule_call.task_duration)
    /\ \A i, j \in DOMAIN occurrences :
          i < j => Stamp(occurrences[i][1]) < Stamp(occurrences[j][1])

CallYears == schedule_call.start_date.year .. schedule_call.end_date.year

\* the day_of_quarter-th day of the quarter that begins with a month of a
\* year, at time_of_day (at midnight without one)
DayOfQuarter(year, month) ==
    at_time_of_day(plus_days(Date(year, month, 1, 0), schedule_call.day - 1),
                   schedule_call.time_of_day)

\* the number of days of that quarter (past is a day of the month that
\* follows the quarter)
QuarterLength(year, month) ==
    LET past == plus_days(Date(year, month, 1, 0), 92)
    IN  toordinal(past) - past.day + 1 - toordinal(Date(year, month, 1, 0))

\* C25: schedule_quarterly ends without an error, having yielded exactly
\* one occurrence for every quarter whose day_of_quarter-th day lies inside
\* [start_date, end_date], in increasing order, every start inside
\* [start_date, end_date] and every end equal to its start plus
\* task_duration.
C25_OneOccurrencePerQuarter ==
    Finished("schedule_quarterly")
    => /\ schedule_pc = "done"
       /\ WellFormedOccurrences
       /\ \A year \in CallYears :
             \A q \in 1..4 :
                (/\ schedule_call.day <= QuarterLength(year, quarter_months[q])
                 /\ InRange(DayOfQuarter(year, quarter_months[q])))
                => Cardinality({i \in DOMAIN occurrences :
                       occurrences[i][1]
                          = DayOfQuarter(year, quarter_months[q])}) = 1

\* the occurrence of a calendar month: day_of_month, or the month's last
\* day when the month is shorter, at time_of_day (at start_date's time
\* without one)
DayOfMonth(year, month) ==
    at_time_of_day(
        [schedule_call.start_date EXCEPT
            !.year = year, !.month = month,
            !.day = IF schedule_call.day <= DaysInMonth(year, month)
                    THEN schedule_call.day ELSE DaysInMonth(year, month)],
        schedule_call.time_of_day)

\* C26: schedule_monthly ends, having yielded one occurrence in every
\* calendar month whose occurrence (day_of_month, or the last day of a
\* shorter month) lies inside [start_date, end_date], the first one
\* included, and nothing else.
C26_OneOccurrencePerMonth ==
    Finished("schedule_monthly")
    => /\ schedule_pc = "done"
       /\ WellFormedOccurrences
       /\ {occurrences[i][1] : i \in DOMAIN occurrences}
             = {date \in {DayOfMonth(year, month) :
                             year \in CallYears, month \in 1..12} :
                   InRange(date)}

-----------------------------------------------------------------------------
(* Child lines of a group's section (Spec).                                *)

IsScalar(v) == ~IsNone(v) /\ ~IsList(v) /\ ~IsDict(v)

\* the child lines that follow the parent line of a group, in order; none
\* when the message has no parent line for the group
SectionChildren(segments, group) ==
    IF HasParentConfig(group)
       /\ ParentLines(segments, ParentIdentifier(group)) # {}
    THEN LET p == CHOOSE i \in ParentLines(segments, ParentIdentifier(group)) :
                      TRUE
         IN  SubSeq(segments, p + 1, p + ChildrenAfter(segments, p))
    ELSE <<>>

\* how many attributes of a record, and of its CYCLEATTRIBUTES sub-record,
\* have the key of a child field of the group
MatchCount(fields, pairs) ==
    Cardinality({i \in DOMAIN pairs :
                    /\ pairs[i][1] # "CYCLEATTRIBUTES"
                    /\ has_matching_config(fields, pairs[i][1])})
    + (IF dict_has(pairs, "CYCLEATTRIBUTES")
          /\ IsDict(dict_at(pairs, "CYCLEATTRIBUTES"))
       THEN Cardinality(
                {j \in DOMAIN dict_at(pairs, "CYCLEATTRIBUTES")[2] :
                    has_matching_config(fields,
                        dict_at(pairs, "CYCLEATTRIBUTES")[2][j][1])})
       ELSE 0)

\* how many child lines the items of a list value stand for: one per
\* scalar, one per matching attribute of a record
RECURSIVE ItemsCount(_, _)
ItemsCount(fields, items) ==
    IF items = <<>> THEN 0
    ELSE (IF IsDict(Head(items)) THEN MatchCount(fields, Head(items)[2])
          ELSE 1)
         + ItemsCount(fields, Tail(items))

\* the value of the k-th child field of a group in the record of the call
FieldValue(group, fields, k) ==
    child_field_value(group, normalized_data, fields[k].json_attribute).val

ValueCount(fields, v) ==
    IF IsNone(v) THEN 0
    ELSE IF IsList(v) THEN ItemsCount(fields, v[2]) ELSE 1

\* how many child lines stand for the child fields before the k-th
RECURSIVE LinesBefore(_, _, _)
LinesBefore(group, fields, k) ==
    IF k = 1 THEN 0
    ELSE ValueCount(fields, FieldValue(group, fields, k - 1))
         + LinesBefore(group, fields, k - 1)

\* the child lines of the message that stand for the k-th child field
FieldLines(group, fields, k) ==
    LET children == SectionChildren(hl7_segments, group)
        before == LinesBefore(group, fields, k)
        count == ValueCount(fields, FieldValue(group, fields, k))
    IN  IF before + count <= Len(children)
        THEN SubSeq(children, before + 1, before + count)
        ELSE SubSeq(children, before + 1, Len(children))

\* the child counters under each parent reference are 1, 2, ... in the
\* order of the lines
CountersFromOne(children) ==
    \A i \in DOMAIN children :
        children[i].set_id
           = 1 + Cardinality({j \in 1..(i - 1) :
                    children[j].obr_set_id = children[i].obr_set_id})

\* C27: for a configured child field of a group, a scalar value yields
\* exactly one child line, and a list of n scalars yields exactly n child
\* lines, one per element in order, all with the same parent reference; the
\* child counters under each parent reference of the group are consecutive
\* from 1 in the order of the lines.
C27_ScalarChildLines ==
    pc = "done" =>
        \A s \in DOMAIN segment_mappings.obr_sections :
            LET group == segment_mappings.obr_sections[s][1]
                fields == segment_mappings.obr_sections[s][2]
                children == SectionChildren(hl7_segments, group)
            IN  /\ CountersFromOne(children)
                /\ \A k \in DOMAIN fields :
                      LET v == FieldValue(group, fields, k)
                          lines == FieldLines(group, fields, k)
                      IN  /\ IsScalar(v)
                             => /\ Len(lines) = 1
                                /\ lines[1].identifier = fields[k].identifier
                                /\ lines[1].value = v
                          /\ (IsList(v) /\ \A i \in DOMAIN v[2] :
                                              ~IsDict(v[2][i]))
                             => /\ Len(lines) = Len(v[2])
                                /\ \A i \in DOMAIN lines :
                                      /\ lines[i].identifier
                                            = fields[k].identifier
                                      /\ lines[i].value = v[2][i]
                                      /\ lines[i].obr_set_id
                                            = lines[1].obr_set_id

\* the child lines of the message that stand for the i-th item of the list
\* value of the k-th child field
ItemLines(group, fields, k, i) ==
    LET lines == FieldLines(group, fields, k)
        items == FieldValue(group, fields, k)[2]
        before == ItemsCount(fields, SubSeq(items, 1, i - 1))
        upto == ItemsCount(fields, SubSeq(items, 1, i))
    IN  SubSeq(lines, before + 1,
               IF upto <= Len(lines) THEN upto ELSE Len(lines))

\* C28: for every record of a list of records, the first one included and
\* also when scalar child fields of the same group were emitted before it,
\* the child lines of the record are numbered 1, 2, ... in their order.
C28_RecordLinesFromOne ==
    pc = "done" =>
        \A s \in DOMAIN segment_mappings.obr_sections :
            LET group == segment_mappings.obr_sections[s][1]
                fields == segment_mappings.obr_sections[s][2]
            IN  \A k \in DOMAIN fields :
                    IsList(FieldValue(group, fields, k))
                    => \A i \in DOMAIN FieldValue(group, fields, k)[2] :
                          IsDict(FieldValue(group, fields, k)[2][i])
                          => LET lines == ItemLines(group, fields, k, i)
                             IN  \A j \in DOMAIN lines : lines[j].set_id = j

\* the attributes of a record that may stand for child lines: its own, other
\* than the sub-record, and those of its CYCLEATTRIBUTES sub-record
RecordAttributes(pairs) ==
    {pairs[i] : i \in {i \in DOMAIN pairs : pairs[i][1] # "CYCLEATTRIBUTES"}}
    \cup (IF dict_has(pairs, "CYCLEATTRIBUTES")
             /\ IsDict(dict_at(pairs, "CYCLEATTRIBUTES"))
          THEN {dict_at(pairs, "CYCLEATTRIBUTES")[2][j] :
                   j \in DOMAIN dict_at(pairs, "CYCLEATTRIBUTES")[2]}
          ELSE {})

\* a child line rendered with the configuration of a child field
RenderedWith(line, config, value) ==
    /\ line.identifier = config.identifier
    /\ line.display_name = config.display_name
    /\ line.data_type = config.data_type
    /\ line.unit = config.unit
    /\ line.value = value

\* C29: for each record of a list of records, every attribute of the record
\* and of its CYCLEATTRIBUTES sub-record whose key is the key of a child
\* field of the same group yields exactly one child line, rendered with
\* that field's configuration; the other attributes yield no line and no
\* error.
C29_MatchingAttributesOnly ==
    /\ raised = "AttributeError" => ~LacksOnlyAttributes(json_data)
    /\ pc = "done" =>
        \A s \in DOMAIN segment_mappings.obr_sections :
            LET group == segment_mappings.obr_sections[s][1]
                fields == segment_mappings.obr_sections[s][2]
            IN  \A k \in DOMAIN fields :
                    IsList(FieldValue(group, fields, k))
                    => \A i \in DOMAIN FieldValue(group, fields, k)[2] :
                          LET item == FieldValue(group, fields, k)[2][i]
                              lines == ItemLines(group, fields, k, i)
                          IN  IsDict(item)
                              => /\ Len(lines) = MatchCount(fields, item[2])
                                 /\ \A a \in RecordAttributes(item[2]) :
                                       has_matching_config(fields, a[1])
                                       => Cardinality(
                                            {j \in DOMAIN lines :
                                               RenderedWith(lines[j],
                                                  matching_config(fields, a[1]),
                                                  a[2])}) = 1

\* the position of the nearest parent line before position i
ParentBefore(segments, i) ==
    CHOOSE p \in 1..(i - 1) :
        /\ segments[p].tag = "OBR"
        /\ \A q \in (p + 1)..(i - 1) : segments[q].tag # "OBR"

\* C30: in every returned message the parent reference of each child line
\* of a configured group is the counter of the nearest parent line before
\* it.
C30_ParentReferenceIntegrity ==
    pc = "done" =>
        \A i \in GroupLines(hl7_segments) :
            hl7_segments[i].tag = "OBX"
            => hl7_segments[i].obr_set_id
                  = hl7_segments[ParentBefore(hl7_segments, i)].set_id

=============================================================================
